---------------------------- MODULE Spec2Model ----------------------------
(***************************************************************************)
(* Smart Bus Nepal: the tick-based App (src/unnamed/part_000) and the      *)
(* multi-route App (src/unnamed/part_002) as state machines.               *)
(*                                                                         *)
(* Numbers.  The code works on IEEE doubles; the model works on integers:  *)
(*   - a stop coordinate is an integer number of 0.01 degree;              *)
(*   - progress is an integer number of hundredths (the code adds 0.01 per *)
(*     tick and wraps on the 100th addition, where the double sum is       *)
(*     1.0000000000000007 >= 1);                                           *)
(*   - a bus position (lat, lng) is an integer number of 0.0001 degree,    *)
(*     so that from + (to - from) * progress is exact;                     *)
(*   - an ETA before rounding is an integer number of 0.01 minute.         *)
(* Array indices are the code's (0-based); StopAt(i) reads stops[i].       *)
(***************************************************************************)
EXTENDS Integers, Sequences, FiniteSets, TLC

VARIABLES
    busPositions,   \* part_000 useState: the two buses, in array order
    busETAs,        \* part_000 useState: displayed ETA per bus id (a function on a set of ids)
    userLocation,   \* part_000 useState: JSNull or [lat, lng]
    geo,            \* the one-shot geolocation query: "pending", "ok" or "failed"
    destination,    \* part_000 useState: selected destination stop name
    ticket,         \* part_000 useState: JSNull or the ticket record
    now,            \* Date.now()
    ticks,          \* number of 100 ms ticks taken (counted only where a specification bounds them)
    tickTimer,      \* part_000: ms until the 100 ms interval is due
    etaTimer,       \* part_000: ms until the 5 s interval of the current ETA effect is due
    elapsed,        \* ms since the App was mounted (counted only in TimedSpec)
    late,           \* whether time has passed while a timer callback was due
    walk,           \* one run of an ETA loop, statement by statement
    faresData,      \* part_002: data/fares.json
    fareResult,     \* part_002: the last calculateFare call and what it returned
    multi,          \* part_002: the App's useState values, one field each
    probe,          \* the last findNearestStop call on a drawn stop table, and what it returned
    issued,         \* the ids of the tickets issued, in order (recorded only in IdSpec)
    etaLog,         \* part_002: when updateETAs last computed, and the time before that
    conductor,      \* part_000 Conductor: scanned (useState) and whether the scanner runs
    taxForm,        \* part_005 TaxCalculator: income and tax (useState)
    markers,        \* MapView: markersRef, the marker of each bus (followed only in SimSpec)
    drawn           \* part_000 over a drawn stops.json: the table, the buses, a TypeError

vars == <<busPositions, busETAs, userLocation, geo, destination, ticket, now, ticks,
          tickTimer, etaTimer, elapsed, late, walk, faresData, fareResult, multi,
          probe, issued, etaLog, conductor, taxForm, markers, drawn>>

\* the components beside the two Apps
elsewhere == <<conductor, taxForm, markers, drawn>>

\* recorded for the claims, written by the actions named at each variable
observed == <<probe, issued, etaLog, elsewhere>>

\* what the untimed handlers of the tick-based App leave alone
outside == <<tickTimer, etaTimer, elapsed, late, walk, faresData, fareResult, multi, observed>>

-----------------------------------------------------------------------------
(* JavaScript values that are not numbers of the model                     *)

JSNull == [t |-> "null", v |-> 0]
JSUndefined == [t |-> "undefined", v |-> 0]
JSNum(n) == [t |-> "number", v |-> n]
JSString(text) == [t |-> "string", text |-> text]

\* JSON.stringify(value): the text of the JSON document that denotes value
JSONStringify(value) == [t |-> "json", v |-> value]

\* a template literal: its literal chunks and its substituted values, in order
TemplateLiteral(parts) == [t |-> "template", parts |-> parts]
Chunk(text) == [kind |-> "literal", field |-> "", v |-> JSString(text)]
Substituted(field, value) == [kind |-> "value", field |-> field, v |-> JSNum(value)]

\* JSON.parse(text): the value a JSON document denotes; a SyntaxError for any other text
\* (a text that starts with the letters of a template's first chunk is no JSON document)
JSONParse(text) ==
    IF text.t = "json" THEN [threw |-> FALSE, value |-> text.v]
    ELSE [threw |-> TRUE, value |-> JSUndefined]

-----------------------------------------------------------------------------
(* Static tables                                                           *)

\* stops.json of the tick-based App: four stops (the names of fares.js), coordinates in 0.01 degree.
Stops ==
    << [name |-> "Lagankhel",  lat |-> 1, lng |-> 1],
       [name |-> "Pulchowk",   lat |-> 2, lng |-> 1],
       [name |-> "Ratna Park", lat |-> 5, lng |-> 1],
       [name |-> "Airport",    lat |-> 5, lng |-> 4] >>

StopsLength == Len(Stops)
StopAt(i) == Stops[i + 1]
StopNames == { Stops[i].name : i \in 1..Len(Stops) }

\* stops.find(s => s.name === name): the first stop of that name
StopNamed(name) == Stops[CHOOSE i \in 1..Len(Stops) :
                            /\ Stops[i].name = name
                            /\ \A j \in 1..(i - 1) : Stops[j].name # name]

\* src/fares.js: fares[from][to], undefined where the inner table has no such key
FareEntry(from, to) ==
    CASE from = "Lagankhel"  /\ to = "Pulchowk"   -> JSNum(15)
      [] from = "Lagankhel"  /\ to = "Ratna Park" -> JSNum(25)
      [] from = "Lagankhel"  /\ to = "Airport"    -> JSNum(40)
      [] from = "Pulchowk"   /\ to = "Lagankhel"  -> JSNum(15)
      [] from = "Pulchowk"   /\ to = "Ratna Park" -> JSNum(20)
      [] from = "Pulchowk"   /\ to = "Airport"    -> JSNum(30)
      [] from = "Ratna Park" /\ to = "Lagankhel"  -> JSNum(25)
      [] from = "Ratna Park" /\ to = "Pulchowk"   -> JSNum(20)
      [] from = "Ratna Park" /\ to = "Airport"    -> JSNum(25)
      [] from = "Airport"    /\ to = "Lagankhel"  -> JSNum(40)
      [] from = "Airport"    /\ to = "Pulchowk"   -> JSNum(30)
      [] from = "Airport"    /\ to = "Ratna Park" -> JSNum(25)
      [] OTHER -> JSUndefined

\* Kathmandu centre (27.7172, 85.3240) on the grid of Stops
DefaultPos == [lat |-> 6, lng |-> 1]

\* Positions the geolocation provider may report
UserPositions == { [lat |-> 2, lng |-> 2], [lat |-> 5, lng |-> 3] }

-----------------------------------------------------------------------------
(* Program constants of the tick-based simulator                           *)

ProgressStep == 1      \* progress + 0.01, in hundredths
ProgressFull == 100    \* newProgress >= 1, in hundredths
StopTicks == 20        \* stopTimer < 20
PauseCentiMinPerTick == 10   \* stopPauseTicks * 0.1 minute, in 0.01 minute
TickPeriod == 100      \* setInterval(..., 100), ms
ETAPeriod == 5000      \* setInterval(..., 5000), ms

\* data/fares.json of the multi-route App, as faresData[from]?.[to]: the pairs it prices.
\* It lists each pair of neighbouring stops once.
FaresData ==
    [p \in { <<"Ratna Park", "Pulchowk">>, <<"Pulchowk", "Patan Dhoka">>,
             <<"Ratna Park", "Asan">> } |-> JSNum(20)]

\* data/stops.json of the multi-route App: the stops of BUS_ROUTES on a plane, lat and lng
\* in metres north and east of (27.65, 85.28)
StopsData ==
    <<
       [name |-> "Kalanki", lat |-> 4800, lng |-> 200],
       [name |-> "Kalimati", lat |-> 5400, lng |-> 1900],
       [name |-> "Tripureshwor", lat |-> 4900, lng |-> 3400],
       [name |-> "New Baneshwor", lat |-> 4200, lng |-> 5500],
       [name |-> "Koteshwor", lat |-> 3200, lng |-> 6800],
       [name |-> "Jadibuti", lat |-> 2700, lng |-> 7300],
       [name |-> "Gwarko", lat |-> 1900, lng |-> 5100],
       [name |-> "Satdobato", lat |-> 1000, lng |-> 4400],
       [name |-> "Lagankhel", lat |-> 1900, lng |-> 4200],
       [name |-> "Ratna Park", lat |-> 6300, lng |-> 3500],
       [name |-> "Asan", lat |-> 6400, lng |-> 3200],
       [name |-> "Indra Chowk", lat |-> 6200, lng |-> 2900],
       [name |-> "Basantapur", lat |-> 6000, lng |-> 2700],
       [name |-> "Bhotahity", lat |-> 6300, lng |-> 3300],
       [name |-> "Singha Durbar", lat |-> 5300, lng |-> 4300],
       [name |-> "Babar Mahal", lat |-> 4800, lng |-> 4400],
       [name |-> "Kupondole", lat |-> 4100, lng |-> 3500],
       [name |-> "Pulchowk", lat |-> 3100, lng |-> 3600],
       [name |-> "Mangal Bazaar", lat |-> 2600, lng |-> 4400],
       [name |-> "Patan Dhoka", lat |-> 3200, lng |-> 4000],
       [name |-> "Bhaktapur Bus Park", lat |-> 2500, lng |-> 14600],
       [name |-> "Durbar Square", lat |-> 2500, lng |-> 14700] >>

\* Kathmandu centre { lat: 27.7172, lng: 85.3240 } on the plane of StopsData
DefaultPosM == [lat |-> 7500, lng |-> 4300]

\* Positions the geolocation provider may report to the multi-route App
UserPositionsM == { [lat |-> 3000, lng |-> 3800] }

\* no ETA loop is being run
WalkIdle == [pc |-> "idle"]

\* part_000 Conductor: useState(null), and the mount effect has started the scanner
ConductorInitial == [scanned |-> JSNull, scanning |-> TRUE]

\* part_005 TaxCalculator: useState('') and useState(null); the text of the income input
\* is a sequence of digits
TaxFormInitial == [income |-> JSString(<< >>), tax |-> JSNull]

\* part_002 useState initial values, and lastUpdateTime = useRef(Date.now())
MultiInitial ==
    [userLocation |-> JSNull, nearestStop |-> JSNull, locationError |-> JSNull,
     buses |-> << >>, busETAs |-> << >>, selectedDestination |-> "",
     ticket |-> JSNull, showTicket |-> FALSE, isLoading |-> TRUE,
     lastUpdateTime |-> 0]

-----------------------------------------------------------------------------
(* Arithmetic                                                              *)

\* Math.sqrt on the perfect squares the route segments give
Sqrt(n) == CHOOSE r \in 0..n : r * r = n

\* Math.ceil(a / b) for a >= 0, b > 0
CeilDiv(a, b) == (a + b - 1) \div b

SqDist(a, b) == (a.lat - b.lat) * (a.lat - b.lat) + (a.lng - b.lng) * (a.lng - b.lng)

\* Math.sqrt(Math.pow(to.lat - from.lat, 2) + Math.pow(to.lng - from.lng, 2)), in 0.01 degree
SegLen(from, to) == Sqrt(SqDist(from, to))

-----------------------------------------------------------------------------
(* Tick-based App: state after construction                                *)

InitBus(id, i) ==
    [id |-> id, lat |-> StopAt(i).lat * ProgressFull, lng |-> StopAt(i).lng * ProgressFull,
     index |-> i, nextIndex |-> i + 1, progress |-> 0, stopTimer |-> 0]

InitExceptFares ==
    /\ busPositions = << InitBus("A", 0), InitBus("B", 1) >>
    /\ busETAs = << >>
    /\ userLocation = JSNull
    /\ geo = "pending"
    /\ destination = StopAt(0).name
    /\ ticket = JSNull
    /\ now = 0
    /\ ticks = 0
    /\ tickTimer = TickPeriod
    /\ etaTimer = ETAPeriod
    /\ elapsed = 0
    /\ late = FALSE
    /\ walk = WalkIdle
    /\ fareResult = JSNull
    /\ multi = MultiInitial
    /\ probe = JSNull
    /\ issued = << >>
    /\ etaLog = << >>
    /\ conductor = ConductorInitial
    /\ taxForm = TaxFormInitial
    /\ markers = << >>
    /\ drawn = JSNull

Init == InitExceptFares /\ faresData = FaresData

-----------------------------------------------------------------------------
(* Bus animation tick (setInterval 100 ms)                                 *)

\* TickBus with the wrap test written newProgress > 1
TickBus_LateWrap(bus) ==
    LET from == StopAt(bus.index)
        to == StopAt(bus.nextIndex)
    IN  IF bus.stopTimer < StopTicks
        THEN [bus EXCEPT !.stopTimer = bus.stopTimer + 1]
        ELSE LET stepped == bus.progress + ProgressStep
                 wrap == stepped > ProgressFull
             IN  [bus EXCEPT
                    !.lat = from.lat * ProgressFull + (to.lat - from.lat) * stepped,
                    !.lng = from.lng * ProgressFull + (to.lng - from.lng) * stepped,
                    !.index = IF wrap THEN bus.nextIndex ELSE bus.index,
                    !.nextIndex = IF wrap THEN (bus.nextIndex + 1) % StopsLength
                                  ELSE bus.nextIndex,
                    !.progress = IF wrap THEN 0 ELSE stepped,
                    !.stopTimer = IF wrap THEN 0 ELSE bus.stopTimer]

\* TickBus without the dwell after a wrap: stopTimer is left at 20
TickBus_NoDwellAfterWrap(bus) ==
    LET from == StopAt(bus.index)
        to == StopAt(bus.nextIndex)
    IN  IF bus.stopTimer < StopTicks
        THEN [bus EXCEPT !.stopTimer = bus.stopTimer + 1]
        ELSE LET stepped == bus.progress + ProgressStep
                 wrap == stepped >= ProgressFull
                 newProgress == IF wrap THEN 0 ELSE stepped
             IN  [bus EXCEPT
                    !.lat = from.lat * ProgressFull + (to.lat - from.lat) * newProgress,
                    !.lng = from.lng * ProgressFull + (to.lng - from.lng) * newProgress,
                    !.index = IF wrap THEN bus.nextIndex ELSE bus.index,
                    !.nextIndex = IF wrap THEN (bus.nextIndex + 1) % StopsLength
                                  ELSE bus.nextIndex,
                    !.progress = newProgress]

\* TickBus with a dwell tick that also moves the bus along its segment
TickBus_DwellMoves(bus) ==
    LET from == StopAt(bus.index)
        to == StopAt(bus.nextIndex)
        stepped == bus.progress + ProgressStep
        wrap == stepped >= ProgressFull
        newProgress == IF wrap THEN 0 ELSE stepped
    IN  IF bus.stopTimer < StopTicks
        THEN [bus EXCEPT !.stopTimer = bus.stopTimer + 1, !.progress = newProgress]
        ELSE [bus EXCEPT
                !.lat = from.lat * ProgressFull + (to.lat - from.lat) * newProgress,
                !.lng = from.lng * ProgressFull + (to.lng - from.lng) * newProgress,
                !.index = IF wrap THEN bus.nextIndex ELSE bus.index,
                !.nextIndex = IF wrap THEN (bus.nextIndex + 1) % StopsLength
                              ELSE bus.nextIndex,
                !.progress = newProgress,
                !.stopTimer = IF wrap THEN 0 ELSE bus.stopTimer]

\* the callback of prev.map for one bus
TickBus(bus) ==
    LET from == StopAt(bus.index)
        to == StopAt(bus.nextIndex)
    IN  IF bus.stopTimer < StopTicks
        THEN [bus EXCEPT !.stopTimer = bus.stopTimer + 1]
        ELSE LET stepped == bus.progress + ProgressStep
                 wrap == stepped >= ProgressFull
                 newProgress == IF wrap THEN 0 ELSE stepped
                 newIndex == IF wrap THEN bus.nextIndex ELSE bus.index
                 newNextIndex == IF wrap THEN (bus.nextIndex + 1) % StopsLength
                                 ELSE bus.nextIndex
                 newStopTimer == IF wrap THEN 0 ELSE bus.stopTimer
             IN  [bus EXCEPT
                    !.lat = from.lat * ProgressFull + (to.lat - from.lat) * newProgress,
                    !.lng = from.lng * ProgressFull + (to.lng - from.lng) * newProgress,
                    !.index = newIndex,
                    !.nextIndex = newNextIndex,
                    !.progress = newProgress,
                    !.stopTimer = newStopTimer]

TickStep == busPositions' = [i \in DOMAIN busPositions |-> TickBus(busPositions[i])]

Tick ==
    /\ TickStep
    /\ UNCHANGED <<outside, busETAs, userLocation, geo, destination, ticket, now, ticks>>

-----------------------------------------------------------------------------
(* Geolocation (one shot)                                                  *)

GeoSuccess ==
    /\ geo = "pending"
    /\ \E pos \in UserPositions : userLocation' = pos
    /\ geo' = "ok"
    /\ UNCHANGED <<outside, busPositions, busETAs, destination, ticket, now, ticks>>

\* err => console.error(err)
GeoError ==
    /\ geo = "pending"
    /\ geo' = "failed"
    /\ UNCHANGED <<outside, busPositions, busETAs, userLocation, destination, ticket, now, ticks>>

-----------------------------------------------------------------------------
(* Find nearest stop                                                       *)

\* let minDist = Infinity
JSInfinity == [t |-> "infinity", v |-> 0]

\* dist <= minDist
Closer_OrEqual(dist, minDist) == minDist = JSInfinity \/ dist <= minDist.v

\* dist < minDist.  Math.sqrt is strictly increasing on the distances of the model, so the
\* comparison is made on the squares.
Closer(dist, minDist) == minDist = JSInfinity \/ dist < minDist.v

\* stops.forEach(stop => { if (dist < minDist) { minDist = dist; nearest = stop; } }), from
\* the i-th stop on
RECURSIVE NearestFold(_, _, _, _, _)
NearestFold(stops, loc, i, nearest, minDist) ==
    IF i > Len(stops) THEN nearest
    ELSE LET dist == SqDist(stops[i], loc)
         IN  IF Closer(dist, minDist)
             THEN NearestFold(stops, loc, i + 1, stops[i], JSNum(dist))
             ELSE NearestFold(stops, loc, i + 1, nearest, minDist)

\* let nearest = stops[0]; let minDist = Infinity; stops.forEach(...); nearest
NearestIn(stops, loc) == NearestFold(stops, loc, 1, stops[1], JSInfinity)

NearestOf(pos) == NearestIn(Stops, pos)

FindNearestStopOf(loc) ==
    IF loc = JSNull THEN StopAt(0).name ELSE NearestOf(loc).name

FindNearestStop == FindNearestStopOf(userLocation)

-----------------------------------------------------------------------------
(* ETA calculation                                                         *)

\* the while loop of calculateETA: <<distance, stopPauseTicks>> accumulated from (index,
\* nextIndex) until stops[nextIndex] is the target; distance in 0.01 degree
RECURSIVE ETAWalk(_, _, _, _, _)
ETAWalk(index, nextIndex, distance, stopPauseTicks, targetName) ==
    IF StopAt(nextIndex).name # targetName
    THEN ETAWalk(nextIndex, (nextIndex + 1) % StopsLength,
                 distance + SegLen(StopAt(index), StopAt(nextIndex)),
                 stopPauseTicks + StopTicks, targetName)
    ELSE <<distance, stopPauseTicks>>

\* ETACentiMin with the current segment weighted by progress instead of 1 - progress
ETACentiMin_ProgressDone(bus, userStop) ==
    LET w == ETAWalk(bus.index, bus.nextIndex, 0, 0, userStop.name)
        remaining == SegLen(StopAt(bus.index), StopAt(bus.nextIndex)) * bus.progress
    IN  w[1] * ProgressFull + remaining + w[2] * PauseCentiMinPerTick

\* distance * 100 + stopPauseTicks * 0.1, in 0.01 minute
ETACentiMin(bus, userStop) ==
    LET w == ETAWalk(bus.index, bus.nextIndex, 0, 0, userStop.name)
        remaining == SegLen(StopAt(bus.index), StopAt(bus.nextIndex))
                        * (ProgressFull - bus.progress)
    IN  w[1] * ProgressFull + remaining + w[2] * PauseCentiMinPerTick

\* Math.round(Math.ceil(...)), in minutes
CalculateETA(bus, userStop) == CeilDiv(ETACentiMin(bus, userStop), ProgressFull)

-----------------------------------------------------------------------------
(* Claims about the tick-based simulator, checked under Spec               *)

Buses == { busPositions[i] : i \in DOMAIN busPositions }

\* C2: every bus's (lat, lng) equals stops[index] + (stops[nextIndex] - stops[index]) *
\* progress; in particular at progress = 0 the bus is at stops[index].
\* (The wrap tick interpolates between the stops of the segment just finished.)
C2_PositionIsInterpolation ==
    \A bus \in Buses :
        LET from == StopAt(bus.index)
            to == StopAt(bus.nextIndex)
        IN  /\ bus.lat = from.lat * ProgressFull + (to.lat - from.lat) * bus.progress
            /\ bus.lng = from.lng * ProgressFull + (to.lng - from.lng) * bus.progress

\* C3: every bus satisfies 0 <= progress < 1 and 0 <= stopTimer <= 20.
C3_ProgressAndTimerBounds ==
    \A bus \in Buses :
        /\ 0 <= bus.progress /\ bus.progress < ProgressFull
        /\ 0 <= bus.stopTimer /\ bus.stopTimer <= StopTicks

\* C3 witness: bus A has wrapped onto its second segment and bus B is one step from wrapping
C3_Witness ==
    /\ busPositions[1].index = 1 /\ busPositions[1].stopTimer = StopTicks
    /\ busPositions[2].progress = ProgressFull - ProgressStep

\* C17: the tick on which progress would reach 1 sets index to the old nextIndex,
\* nextIndex to (old nextIndex + 1) mod stops.length, progress to 0 and stopTimer to 0;
\* the bus then spends exactly 20 dwell ticks before progress is positive again: progress
\* stays 0 while stopTimer < 20, each of those ticks adds 1 to stopTimer, and the tick at
\* stopTimer = 20 moves the bus.
C17_WrapThenTwentyDwellTicks ==
    [][\A i \in DOMAIN busPositions :
          LET bus == busPositions[i]
              next == busPositions'[i]
          IN  /\ (bus.stopTimer = StopTicks /\ bus.progress + ProgressStep >= ProgressFull) =>
                     /\ next.index = bus.nextIndex
                     /\ next.nextIndex = (bus.nextIndex + 1) % StopsLength
                     /\ next.progress = 0
                     /\ next.stopTimer = 0
              /\ (bus.stopTimer < StopTicks) =>
                     /\ bus.progress = 0 /\ next.progress = 0
                     /\ next.stopTimer = bus.stopTimer + 1
              /\ (bus.stopTimer = StopTicks /\ bus.progress = 0) =>
                     /\ next.progress > 0
                     /\ next.stopTimer = StopTicks]_<<busPositions>>

\* C17 witness: bus A has wrapped onto its second segment, dwelt, and moved on
C17_Witness ==
    /\ busPositions[1].index = 1 /\ busPositions[1].nextIndex = 2
    /\ busPositions[1].stopTimer = StopTicks
    /\ busPositions[1].progress = ProgressStep

\* C18: a tick applied to a bus with stopTimer < 20 adds exactly 1 to stopTimer and leaves
\* the bus's id, index, nextIndex, progress, lat and lng unchanged, whatever the other
\* bus does; the buses keep their ids and their places in the array.
C18_DwellTickOnlyCounts ==
    [][/\ DOMAIN busPositions' = DOMAIN busPositions
       /\ \A i \in DOMAIN busPositions :
             /\ busPositions'[i].id = busPositions[i].id
             /\ busPositions[i].stopTimer < StopTicks =>
                   busPositions'[i] =
                       [busPositions[i] EXCEPT !.stopTimer = busPositions[i].stopTimer + 1]
      ]_<<busPositions>>

\* C18 witness: both buses half-way through the dwell at their second stop
C18_Witness ==
    /\ busPositions[1].index = 1 /\ busPositions[2].index = 2
    /\ \A bus \in Buses : bus.stopTimer = 10 /\ bus.progress = 0

\* index of the stop of that name
TargetIndex(name) == CHOOSE i \in 0..(StopsLength - 1) : StopAt(i).name = name

\* number of segments after the bus's current one up to the one that ends at the target,
\* which is also the number of stops passed before the target
SegmentsAfterCurrent(bus, name) ==
    (TargetIndex(name) - bus.nextIndex + StopsLength) % StopsLength

RECURSIVE LaterSegments(_, _)
LaterSegments(from, k) ==
    IF k = 0 THEN 0
    ELSE SegLen(StopAt(from), StopAt((from + 1) % StopsLength))
            + LaterSegments((from + 1) % StopsLength, k - 1)

\* ceil(100 * D + 0.1 * 20 * S) for the remaining route distance D and the stops passed S
RemainingRouteETA(bus, name) ==
    LET k == SegmentsAfterCurrent(bus, name)
        cur == SegLen(StopAt(bus.index), StopAt(bus.nextIndex)) * (ProgressFull - bus.progress)
    IN  CeilDiv(cur + LaterSegments(bus.nextIndex, k) * ProgressFull
                    + k * StopTicks * PauseCentiMinPerTick, ProgressFull)

\* C4: for every bus state and every target stop, calculateETA is the rounded-up sum of
\* the remaining route distance to the target and the dwell of the stops passed on the
\* way, no segment counted twice or left out.
C4_ETAIsRemainingDistance ==
    \A bus \in Buses : \A name \in StopNames :
        CalculateETA(bus, StopNamed(name)) = RemainingRouteETA(bus, name)

InTransitStep(i) ==
    /\ busPositions[i].stopTimer = StopTicks
    /\ busPositions[i].progress + ProgressStep < ProgressFull
    /\ busPositions'[i].progress = busPositions[i].progress + ProgressStep

DwellStep(i) ==
    /\ busPositions[i].stopTimer < StopTicks
    /\ busPositions'[i].stopTimer = busPositions[i].stopTimer + 1

\* C5 (as stated): for a fixed bus and target, calculateETA strictly decreases on every
\* in-transit tick that does not wrap, and does not increase on a dwell tick.
C5_ETAStrictlyDecreasesInTransit ==
    [][\A i \in DOMAIN busPositions : \A name \in StopNames :
          /\ InTransitStep(i) =>
                CalculateETA(busPositions'[i], StopNamed(name))
                    < CalculateETA(busPositions[i], StopNamed(name))
          /\ DwellStep(i) =>
                CalculateETA(busPositions'[i], StopNamed(name))
                    <= CalculateETA(busPositions[i], StopNamed(name))]_vars

\* C5 (amended): for a fixed bus and target, calculateETA never increases on an in-transit
\* tick that does not wrap, and is unchanged by a dwell tick.
C5_ETANeverIncreasesInTransit ==
    [][\A i \in DOMAIN busPositions : \A name \in StopNames :
          /\ InTransitStep(i) =>
                CalculateETA(busPositions'[i], StopNamed(name))
                    <= CalculateETA(busPositions[i], StopNamed(name))
          /\ DwellStep(i) =>
                CalculateETA(busPositions'[i], StopNamed(name))
                    = CalculateETA(busPositions[i], StopNamed(name))]_vars

\* C5 witness: both buses in transit in mid-segment, bus A's ETA to the stop ahead already lower
\* than at departure
C5_Witness ==
    /\ \A bus \in Buses : bus.stopTimer = StopTicks /\ bus.progress > 0
    /\ CalculateETA(busPositions[1], StopAt(busPositions[1].nextIndex))
          < CalculateETA([busPositions[1] EXCEPT !.progress = 0],
                         StopAt(busPositions[1].nextIndex))

\* C10: when the geolocation query fails the application uses the default Kathmandu
\* coordinates as the user location, and the nearest stop is the stop closest to them.
C10_FailedGeoUsesDefault ==
    geo = "failed" =>
        /\ userLocation = DefaultPos
        /\ FindNearestStop = NearestOf(DefaultPos).name

-----------------------------------------------------------------------------
(* Tick-based App: ETA update callback, destination select, ticket purchase *)

MaxTicks == 55   \* ticks taken in TicketSpec
MaxNow == 2      \* largest clock value in TicketSpec

\* ETAChanged with the threshold written > 1
ETAChanged_MoreThanOne(prev, id, newETA) ==
    LET shown == IF id \in DOMAIN prev THEN prev[id] ELSE 0
        diff == newETA - shown
    IN  (IF diff < 0 THEN 0 - diff ELSE diff) > 1

\* Math.abs(newETAs[id] - (prev[id] || 0)) >= 1
ETAChanged(prev, id, newETA) ==
    LET shown == IF id \in DOMAIN prev THEN prev[id] ELSE 0
        diff == newETA - shown
    IN  (IF diff < 0 THEN 0 - diff ELSE diff) >= 1

\* the updater passed to setBusETAs
SmoothedETAs(prev, newETAs) ==
    [id \in DOMAIN prev \cup { id \in DOMAIN newETAs : ETAChanged(prev, id, newETAs[id]) } |->
        IF id \in DOMAIN newETAs /\ ETAChanged(prev, id, newETAs[id])
        THEN newETAs[id] ELSE prev[id]]

\* busPositions.map(bus => calculateETA(bus, stops.find(s => s.name === fromStop)))
ETAsAt(fromStop) ==
    [i \in DOMAIN busPositions |-> CalculateETA(busPositions[i], StopNamed(fromStop))]

\* UpdateETAsStep with the ticket's ETAs computed against the nearest stop
UpdateETAsStep_NearestStop ==
    LET nearestStop == FindNearestStop
        ids == { busPositions[i].id : i \in DOMAIN busPositions }
        busOf(id) == busPositions[CHOOSE i \in DOMAIN busPositions : busPositions[i].id = id]
        newETAs == [id \in ids |-> CalculateETA(busOf(id), StopNamed(nearestStop))]
    IN  /\ busETAs' = SmoothedETAs(busETAs, newETAs)
        /\ ticket' = IF ticket # JSNull
                     THEN [ticket EXCEPT !.eta = ETAsAt(nearestStop)]
                     ELSE ticket

\* the callback of the 5 s interval
UpdateETAsStep ==
    LET nearestStop == FindNearestStop
        ids == { busPositions[i].id : i \in DOMAIN busPositions }
        busOf(id) == busPositions[CHOOSE i \in DOMAIN busPositions : busPositions[i].id = id]
        newETAs == [id \in ids |-> CalculateETA(busOf(id), StopNamed(nearestStop))]
    IN  /\ busETAs' = SmoothedETAs(busETAs, newETAs)
        /\ ticket' = IF ticket # JSNull
                     THEN [ticket EXCEPT !.eta = ETAsAt(ticket.from)]
                     ELSE ticket

UpdateETAs ==
    /\ UpdateETAsStep
    /\ UNCHANGED <<outside, busPositions, userLocation, geo, destination, now, ticks>>

\* onChange of the destination select
SetDestination ==
    /\ \E name \in StopNames : destination' = name
    /\ UNCHANGED <<outside, busPositions, busETAs, userLocation, geo, ticket, now, ticks>>

BuyTicketStep ==
    LET fromStop == FindNearestStop
        fare == FareEntry(fromStop, destination)
    IN  ticket' = [id |-> now, from |-> fromStop, to |-> destination, fare |-> fare,
                   eta |-> ETAsAt(fromStop)]

\* buyTicket that also puts the buses back at their first stops
BuyTicket_ResetsBuses ==
    /\ BuyTicketStep
    /\ busPositions' = << InitBus("A", 0), InitBus("B", 1) >>
    /\ UNCHANGED <<outside, busETAs, userLocation, geo, destination, now, ticks>>

BuyTicket ==
    /\ BuyTicketStep
    /\ UNCHANGED <<outside, busPositions, busETAs, userLocation, geo, destination, now, ticks>>

\* the 100 ms tick, counted
TickCounted ==
    /\ ticks < MaxTicks
    /\ TickStep
    /\ ticks' = ticks + 1
    /\ UNCHANGED <<outside, busETAs, userLocation, geo, destination, ticket, now>>

\* time passes
ClockAdvance ==
    /\ now < MaxNow
    /\ now' = now + 1
    /\ UNCHANGED <<outside, busPositions, busETAs, userLocation, geo, destination, ticket, ticks>>

TicketNext ==
    \/ TickCounted
    \/ GeoSuccess
    \/ GeoError
    \/ UpdateETAs
    \/ SetDestination
    \/ BuyTicket
    \/ ClockAdvance

TicketSpec == Init /\ [][TicketNext]_vars

\* C13: once a ticket is issued, no tick and no ETA recomputation changes its id, from, to
\* or fare (only a new purchase replaces the ticket); the periodic refresh replaces only
\* eta, by the ETAs to the ticket's own from stop.
C13_TicketFrozenExceptETA ==
    [][(ticket # JSNull /\ ~BuyTicket) =>
          /\ ticket' # JSNull
          /\ ticket'.id = ticket.id /\ ticket'.from = ticket.from
          /\ ticket'.to = ticket.to /\ ticket'.fare = ticket.fare
          /\ DOMAIN ticket' = DOMAIN ticket
          /\ ticket'.eta # ticket.eta => ticket'.eta = ETAsAt(ticket.from)]_vars

\* C13 witness: a ticket bought at the first stop of the table before the user's position
\* was known, its ETAs now those to that stop while the displayed ETAs are those to the
\* stop nearest to the user, after bus B's ETAs have dropped
C13_Witness ==
    /\ ticket # JSNull /\ userLocation # JSNull
    /\ ticket.from # FindNearestStop
    /\ busPositions[2].progress > 33
    /\ ticket.eta = ETAsAt(ticket.from)
    /\ ticket.eta # ETAsAt(FindNearestStop)
    /\ DOMAIN busETAs = {"A", "B"}
    /\ \A i \in DOMAIN busPositions :
          busETAs[busPositions[i].id] = ETAsAt(FindNearestStop)[i]

\* C15: data flows one way: ETA recomputation, nearest-stop lookup, the geolocation
\* callbacks and ticket purchase never change a bus's simulation state nor the stop and
\* fare tables; only the simulator tick changes vehicle state.
C15_OnlyTickMovesBuses ==
    [][/\ busPositions' # busPositions =>
             /\ ticks' = ticks + 1
             /\ busPositions' = [i \in DOMAIN busPositions |-> TickBus(busPositions[i])]
             /\ UNCHANGED <<busETAs, userLocation, ticket>>
       /\ faresData' = faresData]_vars

\* C15 witness: after 55 ticks or more, a geolocation answer, an ETA recomputation and a
\* purchase, the buses are where the ticks alone have put them
C15_Witness ==
    /\ ticks >= 55 /\ geo = "ok" /\ ticket # JSNull /\ DOMAIN busETAs = {"A", "B"}
    /\ \A i \in DOMAIN busPositions :
          /\ busPositions[i].stopTimer = StopTicks
          /\ busPositions[i].progress = (ticks - StopTicks) * ProgressStep
          /\ busPositions[i].index = i - 1

\* the estimate of the bus of that id to the user's nearest stop
EstimateOf(id) ==
    CalculateETA(busPositions[CHOOSE i \in DOMAIN busPositions : busPositions[i].id = id],
                 StopNamed(FindNearestStop))

\* C16: on each ETA recomputation the displayed ETA of a bus is replaced by the new
\* estimate only if the two differ by at least 1 minute (nothing displayed counts as 0);
\* otherwise the displayed value of that bus is left as it was, and no entry is removed.
C16_DisplayedETAChangesByWholeMinutes ==
    [][UpdateETAs =>
          /\ DOMAIN busETAs \subseteq DOMAIN busETAs'
          /\ \A i \in DOMAIN busPositions :
                LET id == busPositions[i].id
                    shown == IF id \in DOMAIN busETAs THEN busETAs[id] ELSE 0
                IN  IF EstimateOf(id) - shown >= 1 \/ shown - EstimateOf(id) >= 1
                    THEN id \in DOMAIN busETAs' /\ busETAs'[id] = EstimateOf(id)
                    ELSE /\ id \in DOMAIN busETAs' <=> id \in DOMAIN busETAs
                         /\ id \in DOMAIN busETAs => busETAs'[id] = busETAs[id]]_vars

\* C16 witness: bus B's displayed ETA is its estimate after it dropped by a minute, bus A's
\* the one it had at the start
C16_Witness ==
    /\ DOMAIN busETAs = {"A", "B"}
    /\ userLocation = JSNull
    /\ busETAs["B"] = EstimateOf("B")
    /\ busETAs["B"] = CalculateETA(InitBus("B", 1), StopNamed(FindNearestStop)) - 1
    /\ busETAs["A"] = CalculateETA(InitBus("A", 0), StopNamed(FindNearestStop))

\* C9: a purchase whose (origin, destination) pair has no fare entry in either direction
\* yields a ticket with fare exactly 0.
C9_MissingFareIsZero ==
    (/\ ticket # JSNull
     /\ FareEntry(ticket.from, ticket.to) = JSUndefined
     /\ FareEntry(ticket.to, ticket.from) = JSUndefined)
        => ticket.fare = JSNum(0)

-----------------------------------------------------------------------------
(* Tick-based App with its two timers.  A timer callback runs when its     *)
(* timer is due; the browser may run it late.  The ETA effect depends on   *)
(* [busPositions, userLocation, ticket]: a render that changes one of them *)
(* runs its cleanup (clearInterval) and creates a new 5 s interval.        *)

MaxElapsed == 10000   \* ms of run time followed in TimedSpec

untimed == <<walk, faresData, fareResult, multi, now, ticks, observed>>

\* the 100 ms callback; busPositions is replaced, so the ETA effect runs again
TimedTick ==
    /\ tickTimer = 0
    /\ TickStep
    /\ tickTimer' = TickPeriod
    /\ etaTimer' = ETAPeriod
    /\ UNCHANGED <<untimed, elapsed, late, busETAs, userLocation, geo, destination, ticket>>

\* the 5 s callback
TimedUpdateETAs ==
    /\ etaTimer = 0
    /\ UpdateETAsStep
    /\ etaTimer' = ETAPeriod
    /\ UNCHANGED <<untimed, elapsed, late, tickTimer, busPositions, userLocation, geo,
                   destination>>

\* userLocation is replaced, so the ETA effect runs again
TimedGeoSuccess ==
    /\ geo = "pending"
    /\ \E pos \in UserPositions : userLocation' = pos
    /\ geo' = "ok"
    /\ etaTimer' = ETAPeriod
    /\ UNCHANGED <<untimed, elapsed, late, tickTimer, busPositions, busETAs, destination,
                   ticket>>

\* time passes up to the next timer that is not yet due
Advance ==
    LET waiting == { t \in {tickTimer, etaTimer} : t > 0 }
        d == CHOOSE t \in waiting : \A u \in waiting : t <= u
    IN  /\ waiting # {}
        /\ elapsed + d <= MaxElapsed
        /\ elapsed' = elapsed + d
        /\ late' = (late \/ tickTimer = 0 \/ etaTimer = 0)
        /\ tickTimer' = IF tickTimer > d THEN tickTimer - d ELSE 0
        /\ etaTimer' = IF etaTimer > d THEN etaTimer - d ELSE 0
        /\ UNCHANGED <<untimed, busPositions, busETAs, userLocation, geo, destination, ticket>>

TimedNext ==
    \/ TimedTick
    \/ TimedUpdateETAs
    \/ TimedGeoSuccess
    \/ GeoError
    \/ Advance

TimedSpec == Init /\ [][TimedNext]_vars

\* C1: the ETA recomputation runs every 5 seconds while the 100 ms tick keeps running:
\* once 5 s have passed since the initial state with every timer callback run when due,
\* an ETA recomputation has happened and the displayed ETA map is non-empty.
C1_ETAShownAfterPeriod ==
    (elapsed >= ETAPeriod /\ ~late /\ tickTimer > 0) => busETAs # << >>

-----------------------------------------------------------------------------
(* Multi-route App: routes                                                 *)

\* BUS_ROUTES[route].stops
RouteStops(route) ==
    CASE route = "Ring Road" ->
            << "Kalanki", "Kalimati", "Tripureshwor", "New Baneshwor", "Koteshwor",
               "Jadibuti", "Gwarko", "Satdobato", "Lagankhel" >>
      [] route = "Inside Ring Road" ->
            << "Ratna Park", "Asan", "Indra Chowk", "Basantapur", "Bhotahity",
               "Singha Durbar", "Babar Mahal" >>
      [] route = "Kathmandu-Lalitpur" ->
            << "Ratna Park", "Tripureshwor", "Kupondole", "Pulchowk", "Mangal Bazaar",
               "Patan Dhoka" >>
      [] route = "Kathmandu-Bhaktapur" ->
            << "Ratna Park", "New Baneshwor", "Jadibuti", "Bhaktapur Bus Park",
               "Durbar Square" >>

\* Object.keys(BUS_ROUTES)
RouteNames == { "Ring Road", "Inside Ring Road", "Kathmandu-Lalitpur", "Kathmandu-Bhaktapur" }

\* Array.prototype.indexOf: the first index of x (0-based), -1 when x does not occur
IndexOf(seq, x) ==
    IF \E i \in 1..Len(seq) : seq[i] = x
    THEN (CHOOSE i \in 1..Len(seq) : seq[i] = x /\ \A j \in 1..(i - 1) : seq[j] # x) - 1
    ELSE 0 - 1

-----------------------------------------------------------------------------
(* The ETA loops, one iteration per step                                   *)

MaxWalkIters == 12   \* loop iterations followed in one run

\* a stop name that occurs in no table and no route
AbsentStop == "Nowhere"

\* calculateETA(bus, userStop) is entered, for a bus on the segment index -> nextIndex
EnterCalculateETA ==
    /\ walk.pc = "idle"
    /\ \E index \in 0..(StopsLength - 1), target \in StopNames \cup {AbsentStop} :
          walk' = [pc |-> "loop", fn |-> "calculateETA", routeLength |-> StopsLength,
                   index |-> index, nextIndex |-> (index + 1) % StopsLength,
                   target |-> target, targetStopIndex |-> 0, iters |-> 0]
    /\ UNCHANGED <<busPositions, busETAs, userLocation, geo, destination, ticket, now, ticks,
                   tickTimer, etaTimer, elapsed, late, observed, faresData, fareResult, multi>>

\* while (stops[nextIndex].name !== userStop.name) { ...; index = nextIndex; nextIndex = ... }
CalculateETALoop ==
    /\ walk.pc = "loop" /\ walk.fn = "calculateETA"
    /\ walk.iters < MaxWalkIters
    /\ walk' = IF StopAt(walk.nextIndex).name # walk.target
               THEN [walk EXCEPT !.index = walk.nextIndex,
                                 !.nextIndex = (walk.nextIndex + 1) % StopsLength,
                                 !.iters = walk.iters + 1]
               ELSE [walk EXCEPT !.pc = "done"]
    /\ UNCHANGED <<busPositions, busETAs, userLocation, geo, destination, ticket, now, ticks,
                   tickTimer, etaTimer, elapsed, late, observed, faresData, fareResult, multi>>

\* calculateBusETA(bus, targetStopName) is entered: the early return and the first branch
EnterCalculateBusETA ==
    /\ walk.pc = "idle"
    /\ \E route \in RouteNames, isAtStop \in BOOLEAN :
       \E currentStopIndex \in 0..(Len(RouteStops(route)) - 1) :
       \E other \in RouteNames :
       \E target \in { RouteStops(other)[i] : i \in 1..Len(RouteStops(other)) }
                        \cup {AbsentStop} :
          LET stops == RouteStops(route)
              targetStopIndex == IndexOf(stops, target)
          IN  walk' = [pc |-> IF targetStopIndex = 0 - 1 THEN "done" ELSE "loop",
                       fn |-> "calculateBusETA", routeLength |-> Len(stops),
                       index |-> IF isAtStop THEN currentStopIndex
                                 ELSE (currentStopIndex + 1) % Len(stops),
                       nextIndex |-> 0, target |-> target,
                       targetStopIndex |-> targetStopIndex, iters |-> 0]
    /\ UNCHANGED <<busPositions, busETAs, userLocation, geo, destination, ticket, now, ticks,
                   tickTimer, etaTimer, elapsed, late, observed, faresData, fareResult, multi>>

\* while (currentIndex !== targetStopIndex) { ...; currentIndex = nextStopIndex; }
CalculateBusETALoop ==
    /\ walk.pc = "loop" /\ walk.fn = "calculateBusETA"
    /\ walk.iters < MaxWalkIters
    /\ walk' = IF walk.index # walk.targetStopIndex
               THEN [walk EXCEPT !.index = (walk.index + 1) % walk.routeLength,
                                 !.iters = walk.iters + 1]
               ELSE [walk EXCEPT !.pc = "done"]
    /\ UNCHANGED <<busPositions, busETAs, userLocation, geo, destination, ticket, now, ticks,
                   tickTimer, etaTimer, elapsed, late, observed, faresData, fareResult, multi>>

\* the function returns
WalkReturn ==
    /\ walk.pc = "done"
    /\ walk' = WalkIdle
    /\ UNCHANGED <<busPositions, busETAs, userLocation, geo, destination, ticket, now, ticks,
                   tickTimer, etaTimer, elapsed, late, observed, faresData, fareResult, multi>>

WalkNext ==
    \/ EnterCalculateETA
    \/ CalculateETALoop
    \/ EnterCalculateBusETA
    \/ CalculateBusETALoop
    \/ WalkReturn

WalkSpec == Init /\ [][WalkNext]_vars

\* C6: the ETA walk takes at most routeLength loop iterations for every bus state and
\* every target, also when the target stop name does not occur in the bus's route.
C6_WalkWithinRouteLength ==
    walk.pc # "idle" => walk.iters <= walk.routeLength

\* the part of C6 that holds of the code: calculateBusETA, and calculateETA for a target of
\* the stop table
C6_WalkWithinRouteLengthIfKnown ==
    (walk.pc # "idle" /\ (walk.fn = "calculateBusETA" \/ walk.target \in StopNames))
        => walk.iters < walk.routeLength

-----------------------------------------------------------------------------
(* TaxEase: calculateTax and the TaxCalculator form                        *)

IncomeSpread == 20   \* incomes up to this far from 0 and from each slab limit are entered

Slab1Limit == 500000    \* income <= 500000
Slab2Limit == 1000000   \* income <= 1000000
Slab3Limit == 2000000   \* income <= 2000000
Slab2Base == 5000       \* 5000 + ...
Slab3Base == 55000      \* 55000 + ...
Slab4Base == 255000     \* 255000 + ...
Rate1Percent == 1       \* 0.01
Rate2Percent == 10      \* 0.10
Rate3Percent == 20      \* 0.20
Rate4Percent == 30      \* 0.30
PerCent == 100          \* the rates of the code are hundredths

\* Math.round(n / d) for n >= 0, d > 0: halves go up
RoundHalfUp(n, d) == (2 * n + d) \div (2 * d)

\* calculateTax with the third slab starting from the tax at the first limit
CalculateTax_LowBase(income) ==
    LET hundredths ==
            IF income <= Slab1Limit THEN income * Rate1Percent
            ELSE IF income <= Slab2Limit
                 THEN Slab2Base * PerCent + (income - Slab1Limit) * Rate2Percent
            ELSE IF income <= Slab3Limit
                 THEN Slab2Base * PerCent + (income - Slab2Limit) * Rate3Percent
            ELSE Slab4Base * PerCent + (income - Slab3Limit) * Rate4Percent
    IN  RoundHalfUp(hundredths, PerCent)

\* calculateTax(income) for an integer income >= 0; tax before rounding is in hundredths
\* of a rupee, which is exact where the code's double product is not (the rounded results
\* agree for every integer income up to 3,000,000)
CalculateTax(income) ==
    LET hundredths ==
            IF income <= Slab1Limit THEN income * Rate1Percent
            ELSE IF income <= Slab2Limit
                 THEN Slab2Base * PerCent + (income - Slab1Limit) * Rate2Percent
            ELSE IF income <= Slab3Limit
                 THEN Slab3Base * PerCent + (income - Slab2Limit) * Rate3Percent
            ELSE Slab4Base * PerCent + (income - Slab3Limit) * Rate4Percent
    IN  RoundHalfUp(hundredths, PerCent)

\* the decimal numeral of n >= 0, as the value of the number input: a sequence of digits
RECURSIVE DecimalText(_)
DecimalText(n) == IF n < 10 THEN << n >> ELSE Append(DecimalText(n \div 10), n % 10)

\* Number(text) for '' and for a decimal numeral
RECURSIVE NumberOfDigits(_)
NumberOfDigits(digits) ==
    IF digits = << >> THEN 0
    ELSE NumberOfDigits(SubSeq(digits, 1, Len(digits) - 1)) * 10 + digits[Len(digits)]

NumberOf(string) == NumberOfDigits(string.text)

\* the incomes entered: near 0 and near each slab limit
Incomes ==
    (0..(3 * IncomeSpread))
        \cup UNION { (limit - IncomeSpread)..(limit + IncomeSpread) :
                        limit \in { Slab1Limit, Slab2Limit, Slab3Limit } }

\* onChange of the income input
SetIncome ==
    /\ \E income \in Incomes :
          taxForm' = [taxForm EXCEPT !.income = JSString(DecimalText(income))]
    /\ UNCHANGED <<busPositions, busETAs, userLocation, geo, destination, ticket, now, ticks,
                   tickTimer, etaTimer, elapsed, late, walk, faresData, fareResult, multi,
                   probe, issued, etaLog, conductor, markers, drawn>>

\* handleCalculate
HandleCalculate ==
    /\ taxForm' = [taxForm EXCEPT !.tax = JSNum(CalculateTax(NumberOf(taxForm.income)))]
    /\ UNCHANGED <<busPositions, busETAs, userLocation, geo, destination, ticket, now, ticks,
                   tickTimer, etaTimer, elapsed, late, walk, faresData, fareResult, multi,
                   probe, issued, etaLog, conductor, markers, drawn>>

TaxNext == SetIncome \/ HandleCalculate

TaxSpec == Init /\ [][TaxNext]_vars

\* the part of income between two limits
SlabPart(income, from, to) ==
    IF income <= from THEN 0 ELSE IF income >= to THEN to - from ELSE income - from

\* the progressive marginal tax in hundredths of a rupee: 1% of the income up to
\* 500,000, 10% of the part up to 1,000,000, 20% of the part up to 2,000,000, 30% of
\* the rest
MarginalTaxHundredths(income) ==
    SlabPart(income, 0, 500000) * 1 + SlabPart(income, 500000, 1000000) * 10
        + SlabPart(income, 1000000, 2000000) * 20
        + (IF income > 2000000 THEN income - 2000000 ELSE 0) * 30

\* C30: for every integer income >= 0 entered, the tax that handleCalculate stores is the
\* progressive marginal tax rounded to the rupee (halves up); the tax of the next rupee of
\* income is never less, and the tax is 5,000 at 500,000, 55,000 at 1,000,000 and
\* 255,000 at 2,000,000.
C30_TaxIsRoundedMarginalTax ==
    [][HandleCalculate =>
          LET income == NumberOf(taxForm.income)
          IN  /\ taxForm'.tax = JSNum((2 * MarginalTaxHundredths(income) + 100) \div 200)
              /\ CalculateTax(income + 1) >= taxForm'.tax.v
              /\ income = 500000 => taxForm'.tax.v = 5000
              /\ income = 1000000 => taxForm'.tax.v = 55000
              /\ income = 2000000 => taxForm'.tax.v = 255000]_vars

\* C30 witness: the tax of an income one rupee above the second limit has been calculated,
\* and it is the 55,000 of the limit (20% of one rupee rounds to nothing)
C30_Witness ==
    /\ taxForm.income = JSString(DecimalText(1000001))
    /\ taxForm.tax = JSNum(55000)

-----------------------------------------------------------------------------
(* Multi-route App: calculateFare                                          *)

MaxFare == 2   \* fare amounts 0..MaxFare may stand in a table of FareSpec

\* stop names used in the tables of FareSpec
FareStops == { "Ratna Park", "Pulchowk" }

\* faresData[from]?.[to]
FareLookup(table, from, to) ==
    IF <<from, to>> \in DOMAIN table THEN table[<<from, to>>] ELSE JSUndefined

\* a || b
JSOr(a, b) == IF a.t = "number" /\ a.v # 0 THEN a ELSE b

\* calculateFare without the reverse lookup
CalculateFare_DirectOnly(table, fromStop, toStop) ==
    IF fromStop = "" \/ toStop = "" THEN JSNum(0)
    ELSE JSOr(FareLookup(table, fromStop, toStop), JSNum(0))

CalculateFare(table, fromStop, toStop) ==
    IF fromStop = "" \/ toStop = "" THEN JSNum(0)
    ELSE JSOr(FareLookup(table, fromStop, toStop),
              JSOr(FareLookup(table, toStop, fromStop), JSNum(0)))

\* every table over FareStops: each ordered pair is missing or priced 0..MaxFare
FareTables ==
    UNION { [pairs -> { JSNum(f) : f \in 0..MaxFare }] : pairs \in SUBSET (FareStops \X FareStops) }

CalculateFareCall ==
    /\ \E fromStop \in FareStops \cup {""}, toStop \in FareStops \cup {""} :
          fareResult' = [from |-> fromStop, to |-> toStop,
                         value |-> CalculateFare(faresData, fromStop, toStop)]
    /\ UNCHANGED <<busPositions, busETAs, userLocation, geo, destination, ticket, now, ticks,
                   tickTimer, etaTimer, elapsed, late, observed, walk, faresData, multi>>

FareNext == CalculateFareCall

FareInit == InitExceptFares /\ faresData \in FareTables

FareSpec == FareInit /\ [][FareNext]_vars

\* C8: for every fare table with an entry t[a][b] = f > 0 and no entry t[b][a],
\* calculateFare(b, a) = f.
C8_ReverseFallback ==
    (/\ fareResult # JSNull
     /\ <<fareResult.from, fareResult.to>> \notin DOMAIN faresData
     /\ <<fareResult.to, fareResult.from>> \in DOMAIN faresData
     /\ faresData[<<fareResult.to, fareResult.from>>].v > 0)
        => fareResult.value = faresData[<<fareResult.to, fareResult.from>>]

\* C8 witness: fare(B, A) was asked of a table that prices only (A, B), and the answer is
\* that price
C8_Witness ==
    /\ fareResult # JSNull
    /\ fareResult.from # fareResult.to
    /\ DOMAIN faresData = { <<fareResult.to, fareResult.from>> }
    /\ faresData[<<fareResult.to, fareResult.from>>].v > 0
    /\ fareResult.value = faresData[<<fareResult.to, fareResult.from>>]

\* C24: calculateFare(from, to) uses the reverse entry only when the direct entry is
\* absent: whenever t[from][to] exists, with any amount from 0 up, the result is that
\* amount, whatever t[to][from] is.
C24_DirectEntryWins ==
    (/\ fareResult # JSNull
     /\ <<fareResult.from, fareResult.to>> \in DOMAIN faresData)
        => fareResult.value = faresData[<<fareResult.from, fareResult.to>>]

-----------------------------------------------------------------------------
(* Multi-route App.  Lengths are metres, times are ms, speeds are km/h.    *)
(* bus.stops is RouteStops(bus.route); an ETA entry's colour is its         *)
(* route's.  The model follows FleetSize of the buses initializeBuses      *)
(* creates: updateBusPositions and updateETAs treat each bus on its own.   *)

FleetSize == 2             \* buses followed
StopPauseTime == 120       \* STOP_PAUSE_TIME, seconds
BusSpeed == 25             \* BUS_SPEED, km/h
MsPerSecond == 1000
MsPerMinute == 60000
MsPerHourPerKm == 3600     \* (metres / (km/h)) * 3600 is ms
OccupancyUnit == 10        \* a bus's occupancy is counted in tenths of a percent

\* Math.random() draws of initializeBuses, as the values they lead to
SpeedChoices == { BusSpeed }
OccupancyChoices == { 30 * OccupancyUnit }
ArrivalAges == { 60000 }

\* the destinations the user picks among the options of the select
DestinationChoices == { "Pulchowk", "Lagankhel" }

RECURSIVE SqrtBetween(_, _, _)
SqrtBetween(n, lo, hi) ==
    IF lo >= hi THEN lo
    ELSE LET mid == (lo + hi + 1) \div 2
         IN  IF mid * mid <= n THEN SqrtBetween(n, mid, hi) ELSE SqrtBetween(n, lo, mid - 1)

\* calculateDistance: the distance of two points, to the metre below (the code: Haversine, km)
CalculateDistance(a, b) ==
    LET dLat == IF a.lat >= b.lat THEN a.lat - b.lat ELSE b.lat - a.lat
        dLng == IF a.lng >= b.lng THEN a.lng - b.lng ELSE b.lng - a.lng
    IN  SqrtBetween(SqDist(a, b), 0, dLat + dLng)

\* stopsData.find(stop => stop.name === name)
StopsDataFind(name) ==
    IF \E i \in 1..Len(StopsData) : StopsData[i].name = name
    THEN StopsData[CHOOSE i \in 1..Len(StopsData) :
                     /\ StopsData[i].name = name
                     /\ \A j \in 1..(i - 1) : StopsData[j].name # name]
    ELSE JSUndefined

\* stopsData.forEach(stop => { if (distance < minDistance) { minDistance = distance;
\* nearest = { ...stop, distance: minDistance }; } }), from the i-th stop on.  The distances
\* are compared on the squares of the plane.
RECURSIVE NearestFoldM(_, _, _, _, _)
NearestFoldM(stops, userPos, i, nearest, minDistance) ==
    IF i > Len(stops) THEN nearest
    ELSE LET distance == SqDist(userPos, stops[i])
         IN  IF Closer(distance, minDistance)
             THEN NearestFoldM(stops, userPos, i + 1,
                               [name |-> stops[i].name, lat |-> stops[i].lat,
                                lng |-> stops[i].lng,
                                distance |-> CalculateDistance(userPos, stops[i])],
                               JSNum(distance))
             ELSE NearestFoldM(stops, userPos, i + 1, nearest, minDistance)

\* findNearestStop(userPos) over a stop table
FindNearestStopIn(stops, userPos) ==
    IF userPos = JSNull THEN JSNull
    ELSE NearestFoldM(stops, userPos, 1, JSNull, JSInfinity)

\* findNearestStop(userPos)
FindNearestStopM(userPos) == FindNearestStopIn(StopsData, userPos)

\* Math.round(a / b) for a >= 0, b > 0
RoundDiv(a, b) == (a + b \div 2) \div b

\* the while loop of calculateBusETA: pause and travel time added from currentIndex up to
\* targetStopIndex, as ms * speed
RECURSIVE BusETAWalk(_, _, _, _)
BusETAWalk(bus, currentIndex, targetStopIndex, total) ==
    IF currentIndex # targetStopIndex
    THEN LET stops == RouteStops(bus.route)
             currentStop == StopsDataFind(stops[currentIndex + 1])
             nextStopIndex == (currentIndex + 1) % Len(stops)
             nextStop == StopsDataFind(stops[nextStopIndex + 1])
             added == IF currentStop # JSUndefined /\ nextStop # JSUndefined
                      THEN StopPauseTime * MsPerSecond * bus.speed
                             + CalculateDistance(currentStop, nextStop) * MsPerHourPerKm
                      ELSE 0
         IN  BusETAWalk(bus, nextStopIndex, targetStopIndex, total + added)
    ELSE total

\* calculateBusETA(bus, targetStopName) called at time t, in minutes
CalculateBusETA(bus, targetStopName, t) ==
    LET stops == RouteStops(bus.route)
        targetStopIndex == IndexOf(stops, targetStopName)
        timeAtStop == t - bus.stopArrivalTime
        remainingPauseTime == IF StopPauseTime * MsPerSecond > timeAtStop
                              THEN StopPauseTime * MsPerSecond - timeAtStop ELSE 0
        currentStop == StopsDataFind(stops[bus.currentStopIndex + 1])
        first == IF bus.isAtStop THEN remainingPauseTime * bus.speed
                 ELSE IF currentStop # JSUndefined
                      THEN CalculateDistance(bus.position, bus.nextStop) * MsPerHourPerKm
                      ELSE 0
        start == IF bus.isAtStop THEN bus.currentStopIndex
                 ELSE (bus.currentStopIndex + 1) % Len(stops)
    IN  IF targetStopName = "" THEN 0
        ELSE IF targetStopIndex = 0 - 1 THEN 0
        ELSE RoundDiv(BusETAWalk(bus, start, targetStopIndex, first), MsPerMinute * bus.speed)

\* one bus of initializeBuses, or JSUndefined when a stop is not in stopsData
NewBus(id, draw) ==
    LET stops == RouteStops(draw.route)
        currentStop == StopsDataFind(stops[draw.randomStopIndex + 1])
        nextStop == StopsDataFind(stops[((draw.randomStopIndex + 1) % Len(stops)) + 1])
    IN  IF currentStop # JSUndefined /\ nextStop # JSUndefined
        THEN [id |-> id, route |-> draw.route, currentStopIndex |-> draw.randomStopIndex,
              position |-> [lat |-> currentStop.lat, lng |-> currentStop.lng],
              nextStop |-> nextStop, occupancy |-> draw.occupancy, speed |-> draw.speed,
              isAtStop |-> draw.isAtStop, stopArrivalTime |-> now - draw.age]
        ELSE JSUndefined

\* Math.floor(Math.random() * route.stops.length), as the first two stops and the last
StartIndexChoices(length) == { 0, 1, length - 1 }

\* the Math.random() draws of initializeBuses for one bus
BusDraws ==
    UNION { [route : {route}, randomStopIndex : StartIndexChoices(Len(RouteStops(route))),
             occupancy : OccupancyChoices, speed : SpeedChoices, isAtStop : BOOLEAN,
             age : ArrivalAges] : route \in RouteNames }

\* setBuses(initializeBuses()), following the first n buses
MountStepOf(n) ==
    \E draws \in [1..n -> BusDraws] :
        multi' = [multi EXCEPT !.buses = [k \in 1..n |-> NewBus(k, draws[k])]]

MountStep == MountStepOf(FleetSize)

\* the mount effect: setBuses(initializeBuses()); the geolocation query is under way
Mount ==
    /\ multi.buses = << >>
    /\ MountStep
    /\ UNCHANGED <<busPositions, busETAs, userLocation, geo, destination, ticket, now, ticks,
                   tickTimer, etaTimer, elapsed, late, observed, walk, faresData, fareResult>>

\* getCurrentPosition's success callback, on the state m
GeoSuccessM(m, userPos) ==
    [m EXCEPT !.userLocation = userPos,
              !.nearestStop = FindNearestStopM(userPos),
              !.isLoading = FALSE]

\* getCurrentPosition's error callback, on the state m
GeoErrorM(m) ==
    [m EXCEPT !.locationError =
                 JSString("Unable to get your location. Using default location."),
              !.userLocation = DefaultPosM,
              !.nearestStop = FindNearestStopM(DefaultPosM),
              !.isLoading = FALSE]

MultiGeoSuccess ==
    /\ multi.userLocation = JSNull
    /\ \E userPos \in UserPositionsM : multi' = GeoSuccessM(multi, userPos)
    /\ UNCHANGED <<busPositions, busETAs, userLocation, geo, destination, ticket, now, ticks,
                   tickTimer, etaTimer, elapsed, late, observed, walk, faresData, fareResult>>

MultiGeoError ==
    /\ multi.userLocation = JSNull
    /\ multi' = GeoErrorM(multi)
    /\ UNCHANGED <<busPositions, busETAs, userLocation, geo, destination, ticket, now, ticks,
                   tickTimer, etaTimer, elapsed, late, observed, walk, faresData, fareResult>>

\* etas.sort((a, b) => a.eta - b.eta): a stable sort, here by insertion
RECURSIVE InsertByETA(_, _)
InsertByETA(sorted, e) ==
    IF sorted = << >> THEN << e >>
    ELSE IF sorted[Len(sorted)].eta <= e.eta THEN Append(sorted, e)
    ELSE Append(InsertByETA(SubSeq(sorted, 1, Len(sorted) - 1), e), sorted[Len(sorted)])

\* etas.sort without sorting
SortByETA_Unsorted(etas) == etas

RECURSIVE SortByETA(_)
SortByETA(etas) ==
    IF etas = << >> THEN << >>
    ELSE InsertByETA(SortByETA(SubSeq(etas, 1, Len(etas) - 1)), etas[Len(etas)])

\* whether updateETAs() passes its early return
ETAsComputed(m) == m.nearestStop # JSNull /\ Len(m.buses) # 0

\* updateETAs() at time t, on the state m
UpdateETAsM(m, t) ==
    IF ~ETAsComputed(m) THEN m
    ELSE [m EXCEPT !.busETAs =
            SortByETA([k \in 1..Len(m.buses) |->
                [busId |-> m.buses[k].id,
                 route |-> m.buses[k].route,
                 eta |-> CalculateBusETA(m.buses[k], m.nearestStop.name, t),
                 occupancy |-> RoundDiv(m.buses[k].occupancy, OccupancyUnit),
                 nextStop |-> m.buses[k].nextStop.name]])]

\* updateETAs()
MultiUpdateETAs ==
    /\ ETAsComputed(multi)
    /\ multi' = UpdateETAsM(multi, now)
    /\ UNCHANGED <<busPositions, busETAs, userLocation, geo, destination, ticket, now, ticks,
                   tickTimer, etaTimer, elapsed, late, observed, walk, faresData, fareResult>>

\* onChange of the destination select
SetSelectedDestination ==
    /\ \E name \in DestinationChoices \cup {""} :
          multi' = [multi EXCEPT !.selectedDestination = name]
    /\ UNCHANGED <<busPositions, busETAs, userLocation, geo, destination, ticket, now, ticks,
                   tickTimer, etaTimer, elapsed, late, observed, walk, faresData, fareResult>>

\* purchaseTicket(busId), from the button of an ETA card; the clock may move on between
\* the Date.now() of id and the Date.now() of qrData
PurchaseTicket ==
    /\ multi.nearestStop # JSNull
    /\ multi.selectedDestination # ""
    /\ \E e \in 1..Len(multi.busETAs) :
       \E t2 \in { t \in {now, now + 1} : t <= MaxNow } :
          LET busId == multi.busETAs[e].busId
              selectedBus == multi.buses[CHOOSE k \in 1..Len(multi.buses) :
                                            multi.buses[k].id = busId]
              fare == CalculateFare(faresData, multi.nearestStop.name,
                                    multi.selectedDestination)
              eta == CalculateBusETA(selectedBus, multi.nearestStop.name, now)
          IN  /\ multi' = [multi EXCEPT
                    !.ticket = [id |-> now, from |-> multi.nearestStop.name,
                                to |-> multi.selectedDestination, fare |-> fare,
                                busId |-> busId, route |-> selectedBus.route, eta |-> eta,
                                occupancy |-> RoundDiv(selectedBus.occupancy,
                                                       OccupancyUnit),
                                purchaseTime |-> t2,
                                qrData |-> JSONStringify(
                                           [ticketId |-> t2,
                                            from |-> multi.nearestStop.name,
                                            to |-> multi.selectedDestination,
                                            busId |-> busId, fare |-> fare,
                                            timestamp |-> t2])],
                    !.showTicket = TRUE]
              /\ now' = t2
    /\ UNCHANGED <<busPositions, busETAs, userLocation, geo, destination, ticket, ticks,
                   tickTimer, etaTimer, elapsed, late, observed, walk, faresData, fareResult>>

-----------------------------------------------------------------------------
(* Multi-route App: the animation loop (updateBusPositions on every frame)  *)

ArrivalRadius == 100   \* distance < 0.1 km, in metres
MinOccupancy == 10     \* Math.max(10, ...)
MaxOccupancy == 100    \* Math.min(100, ...)
MoveUnit == 1000       \* a frame's moveDistance is counted in 1/1000 metre

\* Math.random() * 20 - 10 at a stop arrival, as the changes it leads to: -10 and 0.4
OccupancyChanges == { 0 - 10 * OccupancyUnit, 4 }

\* ms from one animation frame to the next: 16 on a 60 Hz display, more on a busy or
\* throttled page
FrameGaps == { 2000 }

\* Math.round(a / b) for b > 0
SignedRoundDiv(a, b) == IF a >= 0 THEN RoundDiv(a, b) ELSE 0 - RoundDiv(0 - a, b)

\* the callback of prevBuses.map without the departure of a bus at a stop
UpdateBus_StaysAtStop(bus, currentTime, deltaTime, change) ==
    LET stops == RouteStops(bus.route)
        currentStop == StopsDataFind(stops[bus.currentStopIndex + 1])
        targetStop == bus.nextStop
        moveDistance == (bus.speed * deltaTime * MoveUnit) \div MsPerHourPerKm
        totalDistance == CalculateDistance(currentStop, targetStop)
        moved(from, to) ==
            from + SignedRoundDiv((to - from) * moveDistance, totalDistance * MoveUnit)
    IN  IF bus.isAtStop THEN bus
        ELSE IF SqDist(bus.position, targetStop) < ArrivalRadius * ArrivalRadius
        THEN [bus EXCEPT !.position = [lat |-> targetStop.lat, lng |-> targetStop.lng],
                         !.isAtStop = TRUE,
                         !.stopArrivalTime = currentTime]
        ELSE [bus EXCEPT !.position = [lat |-> moved(bus.position.lat, targetStop.lat),
                                       lng |-> moved(bus.position.lng, targetStop.lng)]]

\* the callback of prevBuses.map for one bus; deltaTime in ms, change is the occupancy draw
UpdateBus(bus, currentTime, deltaTime, change) ==
    LET stops == RouteStops(bus.route)
    IN  IF bus.isAtStop
        THEN IF currentTime - bus.stopArrivalTime >= StopPauseTime * MsPerSecond
             THEN LET currentStopIndex == (bus.currentStopIndex + 1) % Len(stops)
                      nextStopIndex == (currentStopIndex + 1) % Len(stops)
                  IN  [bus EXCEPT !.isAtStop = FALSE,
                                  !.currentStopIndex = currentStopIndex,
                                  !.nextStop = StopsDataFind(stops[nextStopIndex + 1])]
             ELSE bus
        ELSE LET currentStop == StopsDataFind(stops[bus.currentStopIndex + 1])
                 targetStop == bus.nextStop
             IN  IF currentStop = JSUndefined \/ targetStop = JSUndefined THEN bus
                 ELSE IF SqDist(bus.position, targetStop) < ArrivalRadius * ArrivalRadius
                 THEN LET raised == bus.occupancy + change
                          highest == MaxOccupancy * OccupancyUnit
                          lowest == MinOccupancy * OccupancyUnit
                          capped == IF raised > highest THEN highest ELSE raised
                      IN  [bus EXCEPT
                             !.position = [lat |-> targetStop.lat, lng |-> targetStop.lng],
                             !.isAtStop = TRUE,
                             !.stopArrivalTime = currentTime,
                             !.occupancy = IF capped < lowest THEN lowest ELSE capped]
                 ELSE LET moveDistance == (bus.speed * deltaTime * MoveUnit)
                                               \div MsPerHourPerKm
                          totalDistance == CalculateDistance(currentStop, targetStop)
                          moved(from, to) ==
                              from + SignedRoundDiv((to - from) * moveDistance,
                                                    totalDistance * MoveUnit)
                      IN  [bus EXCEPT
                             !.position = [lat |-> moved(bus.position.lat, targetStop.lat),
                                           lng |-> moved(bus.position.lng, targetStop.lng)]]

\* updateBusPositions() at time currentTime, on the state m
UpdateBusPositionsM(m, currentTime, changes) ==
    [m EXCEPT !.lastUpdateTime = currentTime,
              !.buses = [k \in 1..Len(m.buses) |->
                            UpdateBus(m.buses[k], currentTime, currentTime - m.lastUpdateTime,
                                      changes[k])]]

\* Date.now() where time is followed in ms
DateNow == now + elapsed

\* updateETAs() has computed at time t
LoggedAt(log, t) == IF log = << >> THEN << t >> ELSE << log[Len(log)], t >>

\* the mount effect, then the effects of the render it causes: the animation loop is
\* requested, the 5 s interval created, and updateETAs() returns early (no nearest stop yet)
FrameMount ==
    /\ multi.buses = << >>
    /\ MountStep
    /\ \E gap \in FrameGaps : tickTimer' = gap
    /\ etaTimer' = ETAPeriod
    /\ UNCHANGED <<busPositions, busETAs, userLocation, geo, destination, ticket, now, ticks,
                   elapsed, late, observed, walk, faresData, fareResult>>

\* a geolocation callback; nearestStop is replaced, so the ETA effect runs again: the
\* interval is cleared, a new one created, and updateETAs() called
FrameGeo ==
    /\ multi.buses # << >>
    /\ multi.userLocation = JSNull
    /\ \E m \in { GeoSuccessM(multi, userPos) : userPos \in UserPositionsM }
                    \cup { GeoErrorM(multi) } :
          /\ multi' = UpdateETAsM(m, DateNow)
          /\ etaLog' = IF ETAsComputed(m) THEN LoggedAt(etaLog, DateNow) ELSE etaLog
    /\ etaTimer' = ETAPeriod
    /\ UNCHANGED <<busPositions, busETAs, userLocation, geo, destination, ticket, now, ticks,
                   tickTimer, elapsed, late, probe, issued, elsewhere, walk, faresData, fareResult>>

\* an animation frame: updateBusPositions(); buses is replaced, so the ETA effect runs
\* again: the interval is cleared, a new one created, and updateETAs() called
AnimationFrame ==
    /\ multi.buses # << >>
    /\ tickTimer = 0
    /\ \E changes \in [1..Len(multi.buses) -> OccupancyChanges] :
          LET m == UpdateBusPositionsM(multi, DateNow, changes)
          IN  /\ multi' = UpdateETAsM(m, DateNow)
              /\ etaLog' = IF ETAsComputed(m) THEN LoggedAt(etaLog, DateNow) ELSE etaLog
    /\ \E gap \in FrameGaps : tickTimer' = gap
    /\ etaTimer' = ETAPeriod
    /\ UNCHANGED <<busPositions, busETAs, userLocation, geo, destination, ticket, now, ticks,
                   elapsed, late, probe, issued, elsewhere, walk, faresData, fareResult>>

\* the callback of the 5 s interval: updateETAs()
IntervalUpdateETAs ==
    /\ multi.buses # << >>
    /\ etaTimer = 0
    /\ multi' = UpdateETAsM(multi, DateNow)
    /\ etaLog' = IF ETAsComputed(multi) THEN LoggedAt(etaLog, DateNow) ELSE etaLog
    /\ etaTimer' = ETAPeriod
    /\ UNCHANGED <<busPositions, busETAs, userLocation, geo, destination, ticket, now, ticks,
                   tickTimer, elapsed, late, probe, issued, elsewhere, walk, faresData, fareResult>>

\* time passes once the App is mounted
FrameAdvance == multi.buses # << >> /\ Advance

FrameNext ==
    \/ FrameMount
    \/ FrameGeo
    \/ AnimationFrame
    \/ IntervalUpdateETAs
    \/ FrameAdvance

FrameSpec == Init /\ [][FrameNext]_vars

\* C19: ETAs are recomputed once when buses and nearest stop are available and then every
\* 5 seconds, not more often: at least 5 s lie between two consecutive computations of
\* updateETAs.
C19_ETARecomputedEveryPeriod ==
    Len(etaLog) = 2 => etaLog[2] - etaLog[1] >= ETAPeriod

MultiNext ==
    \/ Mount
    \/ MultiGeoSuccess
    \/ MultiGeoError
    \/ MultiUpdateETAs
    \/ SetSelectedDestination
    \/ PurchaseTicket

MultiSpec == Init /\ [][MultiNext]_vars

\* C7: when the nearest stop is not a stop of a bus's route, calculateBusETA does not
\* return a number of minutes that updateETAs lists like a real ETA: every listed entry
\* is of a bus whose route has the nearest stop.
C7_NoETAForStopOffRoute ==
    \A e \in 1..Len(multi.busETAs) :
        IndexOf(RouteStops(multi.busETAs[e].route), multi.nearestStop.name) # 0 - 1

\* the ETA estimates a ticket of purchaseTicket carries, as (bus, minutes) pairs
TicketETAs(t) == { [busId |-> t.busId, eta |-> t.eta] }

\* C14: the ticket created by a purchase holds an ETA estimate for every tracked bus, one
\* entry per bus and none missing.
C14_TicketHasETAOfEveryBus ==
    multi.ticket # JSNull =>
        \A k \in 1..Len(multi.buses) :
            \E x \in TicketETAs(multi.ticket) : x.busId = multi.buses[k].id

\* the tick-based half of C14: buyTicket stores one ETA per bus, the estimator's value for
\* the bus and the origin stop at the moment of purchase
C14_TickTicketHasETAOfEveryBus ==
    [][BuyTicket =>
          /\ DOMAIN ticket'.eta = DOMAIN busPositions
          /\ \A i \in DOMAIN busPositions :
                ticket'.eta[i] = CalculateETA(busPositions[i], StopNamed(ticket'.from))]_vars

\* C28: for every ticket of purchaseTicket, the ticketId of the qrData payload equals the
\* ticket's id, and the payload's from, to, busId and fare equal the ticket's fields,
\* whatever the clock does between the two Date.now() calls.
C28_QRPayloadMatchesTicket ==
    multi.ticket # JSNull =>
        LET payload == JSONParse(multi.ticket.qrData).value
        IN  /\ payload.ticketId = multi.ticket.id
            /\ payload.from = multi.ticket.from
            /\ payload.to = multi.ticket.to
            /\ payload.busId = multi.ticket.busId
            /\ payload.fare = multi.ticket.fare

\* the multi-route half of C15 without the animation loop: the geolocation callbacks,
\* updateETAs, the destination select and purchaseTicket leave the buses and the fare
\* table alone; only the mount effect sets the buses
C15_MultiHandlersLeaveBuses ==
    [][/\ multi'.buses # multi.buses => multi.buses = << >>
       /\ faresData' = faresData]_vars

\* the multi-route half of C15 with the animation loop: once the buses are created, only
\* an animation frame changes them
C15_MultiOnlyFramesMoveBuses ==
    [][/\ (multi'.buses # multi.buses /\ multi.buses # << >>) =>
             /\ tickTimer = 0
             /\ multi'.lastUpdateTime = DateNow
       /\ faresData' = faresData]_vars

\* the multi-route App left to itself: mount, a geolocation callback, updateETAs
ListNext ==
    \/ Mount
    \/ MultiGeoSuccess
    \/ MultiGeoError
    \/ MultiUpdateETAs

ListSpec == Init /\ [][ListNext]_vars

\* C20: after every execution of updateETAs with a nearest stop and at least one bus, the
\* busETAs list has exactly one entry per tracked bus (the same bus ids, none twice) and is
\* ordered by non-decreasing eta.
C20_OneEntryPerBusSortedByETA ==
    multi.busETAs # << >> =>
        /\ Len(multi.busETAs) = Len(multi.buses)
        /\ \A k \in 1..Len(multi.buses) :
              Cardinality({ e \in 1..Len(multi.busETAs) :
                              multi.busETAs[e].busId = multi.buses[k].id }) = 1
        /\ \A e \in 1..(Len(multi.busETAs) - 1) :
              multi.busETAs[e].eta <= multi.busETAs[e + 1].eta

\* C20 witness: the second bus is listed first, with the smaller ETA
C20_Witness ==
    /\ Len(multi.busETAs) = Len(multi.buses)
    /\ Len(multi.buses) >= 2
    /\ multi.busETAs[1].busId = multi.buses[2].id
    /\ multi.busETAs[2].busId = multi.buses[1].id
    /\ multi.busETAs[1].eta < multi.busETAs[2].eta

\* the multi-route half of C9: purchaseTicket prices a pair with no entry in either
\* direction at 0
C9_MultiMissingFareIsZero ==
    (/\ multi.ticket # JSNull
     /\ <<multi.ticket.from, multi.ticket.to>> \notin DOMAIN faresData
     /\ <<multi.ticket.to, multi.ticket.from>> \notin DOMAIN faresData)
        => multi.ticket.fare = JSNum(0)

\* the multi-route half of C10: after the error callback the user location is the default
\* position and the nearest stop is the stop closest to it
C10_MultiFailedGeoUsesDefault ==
    multi.locationError # JSNull =>
        /\ multi.userLocation = DefaultPosM
        /\ multi.nearestStop = FindNearestStopM(DefaultPosM)
        /\ \A i \in 1..Len(StopsData) :
              SqDist(DefaultPosM, multi.nearestStop) <= SqDist(DefaultPosM, StopsData[i])

\* the tick-based App never shows an ETA while every timer callback is run when due
C1_NoETAWhileOnTime == ~late => busETAs = << >>

-----------------------------------------------------------------------------
(* Multi-route App over hours: a bus from stop to stop, its marker on the  *)
(* map and its card in the ETA list.  A frame moves a bus by the fraction   *)
(* moveDistance / totalDistance of what is left to its next stop, so a bus  *)
(* needs hours for a long segment; the frames followed here are 20 s        *)
(* apart, which keeps every step of a bus outside the arrival radius at a   *)
(* metre or more.                                                          *)

SimFleet == 1            \* buses followed in SimSpec
MaxSimSeconds == 1200    \* seconds of simulation followed in SimSpec
GeoTimeout == 10000      \* getCurrentPosition's timeout, ms
MarkerMoveMin == 10      \* distanceTo(newLatLng) > 10, metres
IconChangeMin == 5       \* Math.abs(bus.occupancy - currentOccupancy) > 5, percent
LowMax == 30             \* ETAList: occupancy <= 30
MediumMax == 70          \* ETAList: occupancy <= 70
GreenMax == 30           \* MapView: occupancy <= 30
YellowMax == 70          \* MapView: occupancy <= 70

\* ms from one frame followed in SimSpec to the next
LongFrameGaps == { 20000 }

\* ETAList getOccupancyStatus(occupancy).text, of the percentage of an ETA entry
GetOccupancyStatus(occupancy) ==
    IF occupancy <= LowMax THEN "Low" ELSE IF occupancy <= MediumMax THEN "Medium" ELSE "High"

\* MapView createBusIcon(occupancy): the colour of the icon, of a bus's occupancy
CreateBusIcon(occupancy) ==
    IF occupancy <= GreenMax * OccupancyUnit THEN "green"
    ELSE IF occupancy <= YellowMax * OccupancyUnit THEN "yellow" ELSE "red"

\* a new marker of a bus
NewMarker(bus) ==
    [latLng |-> bus.position, icon |-> CreateBusIcon(bus.occupancy),
     occupancy |-> bus.occupancy]

\* the update of an existing marker
UpdatedMarker(marker, bus) ==
    LET diff == bus.occupancy - marker.occupancy
        change == IF diff < 0 THEN 0 - diff ELSE diff
    IN  IF SqDist(marker.latLng, bus.position) > MarkerMoveMin * MarkerMoveMin
        THEN IF change > IconChangeMin * OccupancyUnit
             THEN [latLng |-> bus.position, icon |-> CreateBusIcon(bus.occupancy),
                   occupancy |-> bus.occupancy]
             ELSE [marker EXCEPT !.latLng = bus.position]
        ELSE marker

\* MapView's bus marker effect on the markers ms; the buses never leave the array
UpdateMarkers(ms, buses) ==
    [k \in 1..Len(buses) |->
        IF k \in DOMAIN ms THEN UpdatedMarker(ms[k], buses[k]) ELSE NewMarker(buses[k])]

\* the renders that follow a change of m: MapView is mounted once isLoading is false and
\* then runs its marker effect; the ETA effect calls updateETAs()
Rendered(m, ms, t) ==
    [multi |-> UpdateETAsM(m, t),
     markers |-> IF m.isLoading THEN ms ELSE UpdateMarkers(ms, m.buses)]

\* the mount effect
SimMount ==
    /\ multi.buses = << >>
    /\ MountStepOf(SimFleet)
    /\ UNCHANGED <<busPositions, busETAs, userLocation, geo, destination, ticket, now, ticks,
                   tickTimer, etaTimer, elapsed, late, observed, walk, faresData, fareResult>>

\* a geolocation callback, within the timeout
SimGeo ==
    /\ multi.buses # << >>
    /\ multi.userLocation = JSNull
    /\ elapsed <= GeoTimeout
    /\ \E m \in { GeoSuccessM(multi, userPos) : userPos \in UserPositionsM }
                    \cup { GeoErrorM(multi) } :
          LET after == Rendered(m, markers, DateNow)
          IN  multi' = after.multi /\ markers' = after.markers
    /\ UNCHANGED <<busPositions, busETAs, userLocation, geo, destination, ticket, now, ticks,
                   tickTimer, etaTimer, elapsed, late, walk, faresData, fareResult,
                   probe, issued, etaLog, conductor, taxForm, drawn>>

\* the browser runs the requested animation frame, gap ms after the last; by then the
\* geolocation query has been answered if its timeout has passed
FrameArrivesAfter(gap) ==
    /\ multi.buses # << >>
    /\ elapsed + gap <= MaxSimSeconds * MsPerSecond
    /\ (elapsed + gap > GeoTimeout) => multi.userLocation # JSNull
    /\ elapsed' = elapsed + gap

\* the animation frame: updateBusPositions()
SimFrameAfter(gap) ==
    /\ FrameArrivesAfter(gap)
    /\ \E changes \in [1..Len(multi.buses) -> OccupancyChanges] :
          LET currentTime == now + elapsed'
              after == Rendered(UpdateBusPositionsM(multi, currentTime, changes), markers,
                                currentTime)
          IN  multi' = after.multi /\ markers' = after.markers
    /\ UNCHANGED <<busPositions, busETAs, userLocation, geo, destination, ticket, now, ticks,
                   tickTimer, etaTimer, late, walk, faresData, fareResult,
                   probe, issued, etaLog, conductor, taxForm, drawn>>

SimFrame == \E gap \in LongFrameGaps : SimFrameAfter(gap)

SimNext == SimMount \/ SimGeo \/ SimFrame

SimSpec == Init /\ [][SimNext]_vars

\* the band of an icon colour
BandOfIcon(icon) ==
    CASE icon = "green" -> "Low" [] icon = "yellow" -> "Medium" [] icon = "red" -> "High"

\* C21: for every bus, whenever it has a card in the ETA list and a marker on the map, the
\* occupancy band of the card (Low up to 30, Medium up to 70, High above) is the band of
\* the marker's colour (green, yellow, red), for every occupancy the simulator produces,
\* the non-integer ones of stop arrivals included.
C21_ListBandIsMarkerBand ==
    \A e \in 1..Len(multi.busETAs) :
        LET entry == multi.busETAs[e]
        IN  entry.busId \in DOMAIN markers =>
                GetOccupancyStatus(entry.occupancy) = BandOfIcon(markers[entry.busId].icon)

\* the stop of the bus's route at index i (0-based), from stopsData
RouteStopAt(bus, i) == StopsDataFind(RouteStops(bus.route)[i + 1])

\* the position of a stop
PositionOf(stop) == [lat |-> stop.lat, lng |-> stop.lng]

\* C25: every bus serves the stops of its route in cyclic order without skipping any: a
\* bus that departs leaves from stops[currentStopIndex] for nextStop, the stop that
\* follows it on the route, and a bus that arrives is at that nextStop; so each arrival is
\* at the stop after the one of the previous dwell, also after the first departure of a
\* bus initialised with isAtStop = true.
C25_StopsServedInRouteOrder ==
    [][\A k \in DOMAIN multi.buses \cap DOMAIN multi'.buses :
          LET before == multi.buses[k]
              after == multi'.buses[k]
              length == Len(RouteStops(after.route))
          IN  /\ (before.isAtStop /\ ~after.isAtStop) =>
                    /\ after.position = PositionOf(RouteStopAt(after, after.currentStopIndex))
                    /\ after.nextStop =
                          RouteStopAt(after, (after.currentStopIndex + 1) % length)
              /\ (~before.isAtStop /\ after.isAtStop) =>
                    /\ after.position = PositionOf(before.nextStop)
                    /\ before.nextStop =
                          RouteStopAt(before, (before.currentStopIndex + 1) % length)]_vars

\* the names of the stops of the bus's route that lie where the bus is
StopsWhereBusIs(bus) ==
    { name \in { RouteStops(bus.route)[i] : i \in 1..Len(RouteStops(bus.route)) } :
        PositionOf(StopsDataFind(name)) = bus.position }

\* C26: whenever a bus is dwelling (isAtStop) at a stop of its route, calculateBusETA of the
\* bus and that very stop is 0 minutes ('Arriving now'), for a bus that has just arrived
\* there and for a bus initialised at a stop.
C26_DwellingAtTargetIsArrivingNow ==
    \A k \in DOMAIN multi.buses :
        multi.buses[k].isAtStop =>
            \A target \in StopsWhereBusIs(multi.buses[k]) :
                CalculateBusETA(multi.buses[k], target, DateNow) = 0

\* the statement of C26 for the buses that arrived at their stop during the simulation
C26_ArrivedAtTargetIsArrivingNow ==
    \A k \in DOMAIN multi.buses :
        (multi.buses[k].isAtStop /\ multi.buses[k].stopArrivalTime > 0) =>
            \A target \in StopsWhereBusIs(multi.buses[k]) :
                CalculateBusETA(multi.buses[k], target, DateNow) = 0

\* the steps of SimSpec that are animation frames
FrameArrives == \E gap \in LongFrameGaps : FrameArrivesAfter(gap)

\* the App is mounted, and requested animation frames keep arriving
SimLiveSpec ==
    /\ SimSpec
    /\ WF_vars(SimMount) /\ WF_elapsed(FrameArrives)

\* bus k is at a stop; bus k is on its way
Dwelling(k) == k \in DOMAIN multi.buses /\ multi.buses[k].isAtStop
InTransit(k) == k \in DOMAIN multi.buses /\ ~multi.buses[k].isAtStop

\* the geolocation query has been answered, so that no frame waits for it
GeoAnswered == multi.userLocation # JSNull

\* what is left to the next stop, squared
LeftSquared(bus) == SqDist(bus.position, bus.nextStop)

\* the first half of the time followed
EarlyOn == 2 * elapsed <= MaxSimSeconds * MsPerSecond

\* bus k is on a segment of a kilometre at most and within a kilometre of its next stop
NearNextStop(k) ==
    LET bus == multi.buses[k]
        currentStop == RouteStopAt(bus, bus.currentStopIndex)
    IN  /\ CalculateDistance(currentStop, bus.nextStop) <= 10 * ArrivalRadius
        /\ LeftSquared(bus) <= (10 * ArrivalRadius) * (10 * ArrivalRadius)

\* bus k dwells, early on; bus k is on its way and near its next stop, early on
DwellingEarly(k) == Dwelling(k) /\ GeoAnswered /\ EarlyOn
NearingEarly(k) == InTransit(k) /\ GeoAnswered /\ EarlyOn /\ NearNextStop(k)

-----------------------------------------------------------------------------
(* findNearestStop of both Apps on drawn stop tables                       *)

MaxStops == 3   \* stops in a drawn table
GridMax == 1    \* largest coordinate of a drawn stop or user position

Grid == (0..GridMax) \X (0..GridMax)

\* the table whose i-th stop is named i and lies at points[i]
TableAt(points) ==
    [i \in DOMAIN points |-> [name |-> i, lat |-> points[i][1], lng |-> points[i][2]]]

\* every non-empty table of at most MaxStops stops on the grid
StopTables == UNION { { TableAt(points) : points \in [1..n -> Grid] } : n \in 1..MaxStops }

\* findNearestStop of the tick-based App (a stop name) and of the multi-route App (a stop
\* with its distance) for one table and one user position
FindNearestStopCall ==
    /\ probe = JSNull
    /\ \E stops \in StopTables, g \in Grid :
          LET userPos == [lat |-> g[1], lng |-> g[2]]
          IN  probe' = [stops |-> stops, userPos |-> userPos,
                        name |-> NearestIn(stops, userPos).name,
                        nearest |-> FindNearestStopIn(stops, userPos)]
    /\ UNCHANGED <<busPositions, busETAs, userLocation, geo, destination, ticket, now, ticks,
                   tickTimer, etaTimer, elapsed, late, walk, faresData, fareResult, multi,
                   issued, etaLog, elsewhere>>

NearestNext == FindNearestStopCall

NearestSpec == Init /\ [][NearestNext]_vars

\* the index of the first stop of the table at the least distance from the position
FirstMinimum(stops, pos) ==
    CHOOSE i \in 1..Len(stops) :
        /\ \A j \in 1..Len(stops) : SqDist(stops[i], pos) <= SqDist(stops[j], pos)
        /\ \A j \in 1..(i - 1) : SqDist(stops[j], pos) > SqDist(stops[i], pos)

\* C11: for every non-empty stop table and every user position, findNearestStop returns a
\* stop at the least distance from the user over the whole table, and of several such
\* stops the first in table order (both Apps).
C11_NearestIsFirstMinimum ==
    probe # JSNull =>
        LET first == probe.stops[FirstMinimum(probe.stops, probe.userPos)]
        IN  /\ probe.name = first.name
            /\ probe.nearest.name = first.name
            /\ probe.nearest.lat = first.lat /\ probe.nearest.lng = first.lng
            /\ probe.nearest.distance = CalculateDistance(probe.userPos, first)

\* C11 witness: the second and third stop are equally near, the first stop is farther, and
\* both Apps answer the second stop
C11_Witness ==
    /\ probe # JSNull
    /\ Len(probe.stops) = 3
    /\ SqDist(probe.stops[2], probe.userPos) = SqDist(probe.stops[3], probe.userPos)
    /\ SqDist(probe.stops[1], probe.userPos) > SqDist(probe.stops[2], probe.userPos)
    /\ probe.stops[2] # [probe.stops[3] EXCEPT !.name = 2]
    /\ probe.name = 2 /\ probe.nearest.name = 2

-----------------------------------------------------------------------------
(* Ticket identifiers                                                      *)

MaxPurchases == 3   \* purchases recorded in IdSpec

\* buyTicket(), its ticket's id recorded
BuyTicketLogged ==
    /\ Len(issued) < MaxPurchases
    /\ BuyTicketStep
    /\ issued' = Append(issued, ticket'.id)
    /\ UNCHANGED <<busPositions, busETAs, userLocation, geo, destination, now, ticks,
                   tickTimer, etaTimer, elapsed, late, walk, faresData, fareResult, multi,
                   probe, etaLog, elsewhere>>

IdNext ==
    \/ BuyTicketLogged
    \/ TickCounted
    \/ ClockAdvance
    \/ SetDestination

IdSpec == Init /\ [][IdNext]_vars

\* C12: any two distinct purchases, in any interleaving with ticks and at any clock values
\* (two purchases within the same millisecond included), give tickets of different ids.
C12_TicketIdsUnique ==
    \A i, j \in 1..Len(issued) : i # j => issued[i] # issued[j]

\* the same of two consecutive purchases of the multi-route App
C12_MultiConsecutiveIdsDiffer ==
    [][(multi.ticket # JSNull /\ multi'.ticket # multi.ticket)
          => multi'.ticket.id # multi.ticket.id]_vars

-----------------------------------------------------------------------------
(* Tick-based App over any stops.json: the buses' indices                  *)

\* stops[i]: undefined outside the table
StopOf(stops, i) == IF i >= 0 /\ i < Len(stops) THEN stops[i + 1] ELSE JSUndefined

\* useState of busPositions over the table stops (of two stops at least)
InitBusOn(stops, id, i) ==
    [id |-> id, lat |-> StopOf(stops, i).lat * ProgressFull,
     lng |-> StopOf(stops, i).lng * ProgressFull,
     index |-> i, nextIndex |-> i + 1, progress |-> 0, stopTimer |-> 0]

\* whether the callback of prev.map reads .lat of undefined for this bus
TickThrows(stops, bus) ==
    /\ bus.stopTimer >= StopTicks
    /\ JSUndefined \in { StopOf(stops, bus.index), StopOf(stops, bus.nextIndex) }

\* the callback of prev.map for one bus over the table stops, when it does not throw
TickBusOn(stops, bus) ==
    LET from == StopOf(stops, bus.index)
        to == StopOf(stops, bus.nextIndex)
    IN  IF bus.stopTimer < StopTicks
        THEN [bus EXCEPT !.stopTimer = bus.stopTimer + 1]
        ELSE LET stepped == bus.progress + ProgressStep
                 wrap == stepped >= ProgressFull
                 newProgress == IF wrap THEN 0 ELSE stepped
                 newIndex == IF wrap THEN bus.nextIndex ELSE bus.index
                 newNextIndex == IF wrap THEN (bus.nextIndex + 1) % Len(stops)
                                 ELSE bus.nextIndex
                 newStopTimer == IF wrap THEN 0 ELSE bus.stopTimer
             IN  [bus EXCEPT
                    !.lat = from.lat * ProgressFull + (to.lat - from.lat) * newProgress,
                    !.lng = from.lng * ProgressFull + (to.lng - from.lng) * newProgress,
                    !.index = newIndex,
                    !.nextIndex = newNextIndex,
                    !.progress = newProgress,
                    !.stopTimer = newStopTimer]

\* the module is loaded with some stops.json of two stops or more, and App is constructed
LoadStops ==
    /\ drawn = JSNull
    /\ \E stops \in { table \in StopTables : Len(table) >= 2 } :
          drawn' = [stops |-> stops,
                    buses |-> << InitBusOn(stops, "A", 0), InitBusOn(stops, "B", 1) >>,
                    threw |-> FALSE]
    /\ UNCHANGED <<busPositions, busETAs, userLocation, geo, destination, ticket, now, ticks,
                   tickTimer, etaTimer, elapsed, late, walk, faresData, fareResult, multi,
                   probe, issued, etaLog, conductor, taxForm, markers>>

\* the 100 ms tick over the drawn table; a TypeError in the updater ends the App
DrawnTick ==
    /\ drawn # JSNull
    /\ ~drawn.threw
    /\ drawn' =
          IF \E i \in DOMAIN drawn.buses : TickThrows(drawn.stops, drawn.buses[i])
          THEN [drawn EXCEPT !.threw = TRUE]
          ELSE [drawn EXCEPT !.buses = [i \in DOMAIN drawn.buses |->
                                           TickBusOn(drawn.stops, drawn.buses[i])]]
    /\ UNCHANGED <<busPositions, busETAs, userLocation, geo, destination, ticket, now, ticks,
                   tickTimer, etaTimer, elapsed, late, walk, faresData, fareResult, multi,
                   probe, issued, etaLog, conductor, taxForm, markers>>

DrawnNext == LoadStops \/ DrawnTick

DrawnSpec == Init /\ [][DrawnNext]_vars

\* C23: for every stop table of two stops or more, every bus's index and nextIndex are
\* indices of the table (0 <= . < stops.length) and nextIndex = (index + 1) mod
\* stops.length, initially and after any number of ticks, and no tick reads a stop
\* outside the table.
C23_IndicesWithinTable ==
    drawn # JSNull =>
        /\ ~drawn.threw
        /\ \A i \in DOMAIN drawn.buses :
              LET bus == drawn.buses[i]
              IN  /\ 0 <= bus.index /\ bus.index < Len(drawn.stops)
                  /\ 0 <= bus.nextIndex /\ bus.nextIndex < Len(drawn.stops)
                  /\ bus.nextIndex = (bus.index + 1) % Len(drawn.stops)

\* the statement of C23 for tables of three stops or more
C23_IndicesWithinLongerTable ==
    (drawn # JSNull /\ Len(drawn.stops) >= 3) =>
        /\ ~drawn.threw
        /\ \A i \in DOMAIN drawn.buses :
              LET bus == drawn.buses[i]
              IN  /\ 0 <= bus.index /\ bus.index < Len(drawn.stops)
                  /\ 0 <= bus.nextIndex /\ bus.nextIndex < Len(drawn.stops)
                  /\ bus.nextIndex = (bus.index + 1) % Len(drawn.stops)

\* a table of two stops over which the 21st tick has thrown
C23_TwoStopsThrow == drawn # JSNull /\ Len(drawn.stops) = 2 /\ drawn.threw

-----------------------------------------------------------------------------
(* Tick-based App: the ticket's QR code and the Conductor page             *)

\* QRTicket: the value of the QR code, `Ticket:${ticket.id}`
QRValue(t) == TemplateLiteral(<< Chunk("Ticket:"), Substituted("id", t.id) >>)

\* another QR code the conductor's camera may see: the JSON text of a ticket
JSONTicketCode ==
    JSONStringify([id |-> 7, from |-> "Lagankhel", to |-> "Airport", fare |-> JSNum(40)])

\* Conductor: the success callback of qrScanner.start, on the state c.  When JSON.parse
\* throws, neither setScanned nor qrScanner.stop() is reached, and whether the scanner
\* goes on is the library's business.
OnScanSuccess(c, decodedText) ==
    LET parsed == JSONParse(decodedText)
    IN  IF parsed.threw
        THEN { [c EXCEPT !.scanning = goesOn] : goesOn \in BOOLEAN }
        ELSE { [scanned |-> parsed.value, scanning |-> FALSE] }

\* the scanner decodes the code text
ScanOf(text) ==
    /\ conductor.scanning
    /\ conductor' \in OnScanSuccess(conductor, text)
    /\ UNCHANGED <<busPositions, busETAs, userLocation, geo, destination, ticket, now, ticks,
                   tickTimer, etaTimer, elapsed, late, walk, faresData, fareResult, multi,
                   probe, issued, etaLog, taxForm, markers, drawn>>

\* the scanner decodes the rider's ticket, or another code
Scan ==
    \E text \in {JSONTicketCode} \cup (IF ticket # JSNull THEN {QRValue(ticket)} ELSE {}) :
        ScanOf(text)

ScanNext ==
    \/ GeoSuccess
    \/ GeoError
    \/ SetDestination
    \/ BuyTicket
    \/ ClockAdvance
    \/ Scan

ScanSpec == Init /\ [][ScanNext]_vars

\* whether the text carries the value of the named field
Carries(text, field) ==
    IF text.t = "json" THEN field \in DOMAIN text.v
    ELSE \E i \in 1..Len(text.parts) :
            text.parts[i].kind = "value" /\ text.parts[i].field = field

\* C22: the scannable encoding of an issued ticket contains both the ticket's id and its
\* fare; here for the QR value that QRTicket renders of the tick-based App's ticket.
C22_QRValueCarriesIdAndFare ==
    ticket # JSNull =>
        /\ Carries(QRValue(ticket), "id")
        /\ Carries(QRValue(ticket), "fare")

\* C29: when the Conductor scanner decodes the QR value that QRTicket renders for an
\* issued ticket, it records a scanned ticket whose id, from, to and fare equal the issued
\* ticket's, and the scanner is stopped after that one scan.
C29_ScanRecordsIssuedTicket ==
    [][(ticket # JSNull /\ ScanOf(QRValue(ticket))) =>
          /\ conductor'.scanned # JSNull
          /\ conductor'.scanned.id = ticket.id
          /\ conductor'.scanned.from = ticket.from
          /\ conductor'.scanned.to = ticket.to
          /\ conductor'.scanned.fare = ticket.fare
          /\ ~conductor'.scanning]_vars

Next == Tick \/ GeoSuccess \/ GeoError

Spec == Init /\ [][Next]_vars

=============================================================================
